---- MODULE Spec2Model ----
(***************************************************************************)
(* A model of the api_request / api_session_status / api_session_report   *)
(* tools of playwright-mcp: the process-wide session store, the           *)
(* asynchronous api_request handler (single mode and chain mode) with its *)
(* suspension points, the template engine, the field extractor and the    *)
(* response validator.                                                     *)
(*                                                                         *)
(* JavaScript values are tagged records; JavaScript strings are sequences *)
(* of one-character strings, so that templating, path splitting and       *)
(* serialisation are computed character by character as the code does.    *)
(***************************************************************************)
EXTENDS Integers, Sequences, FiniteSets, TLC

(***************************************************************************)
(* JavaScript values                                                       *)
(***************************************************************************)
Undefined == [t |-> "undefined"]
Null == [t |-> "null"]
Bool(b) == [t |-> "bool", b |-> b]
Num(n) == [t |-> "num", n |-> n]
Str(s) == [t |-> "str", s |-> s]
\* an object is its own properties in insertion order: a sequence of <<key, value>>
Obj(o) == [t |-> "obj", o |-> o]
Arr(a) == [t |-> "arr", a |-> a]

IsNullish(v) == v.t \in {"undefined", "null"}

\* typeof v === 'object' (null and arrays included)
TypeofObject(v) == v.t \in {"null", "obj", "arr"}

\* JavaScript truthiness of the values the handler tests with `?` and `!`
Truthy(v) ==
  CASE v.t = "undefined" -> FALSE
    [] v.t = "null" -> FALSE
    [] v.t = "bool" -> v.b
    [] v.t = "num" -> v.n # 0
    [] v.t = "str" -> v.s # <<>>
    [] OTHER -> TRUE

Digits == <<"0", "1", "2", "3", "4", "5", "6", "7", "8", "9">>

DigitVal(c) == (CHOOSE d \in 1..10 : Digits[d] = c) - 1

IsDigit(c) == \E d \in 1..10 : Digits[d] = c

RECURSIVE NatToStr(_)
NatToStr(n) == IF n < 10 THEN <<Digits[n + 1]>>
               ELSE NatToStr(n \div 10) \o <<Digits[(n % 10) + 1]>>

\* String(n) for an integer n
NumToStr(n) == IF n < 0 THEN <<"-">> \o NatToStr(0 - n) ELSE NatToStr(n)

RECURSIVE StrToNat(_)
StrToNat(s) == IF s = <<>> THEN 0
               ELSE 10 * StrToNat(SubSeq(s, 1, Len(s) - 1)) + DigitVal(s[Len(s)])

\* a canonical array index: "0", or digits without a leading zero
IsIndex(k) == /\ k # <<>>
              /\ \A j \in 1..Len(k) : IsDigit(k[j])
              /\ (Len(k) > 1 => k[1] # "0")

LengthKey == <<"l", "e", "n", "g", "t", "h">>

HasKey(o, k) == \E j \in 1..Len(o) : o[j][1] = k

Lookup(o, k) == IF HasKey(o, k) THEN o[CHOOSE j \in 1..Len(o) : o[j][1] = k][2]
                ELSE Undefined

\* a built-in constructor function: Object, Array, String, Number, Boolean,
\* Function
Fn(name) == [t |-> "fn", name |-> name]

ConstructorKey == <<"c", "o", "n", "s", "t", "r", "u", "c", "t", "o", "r">>

NameKey == <<"n", "a", "m", "e">>

\* val has p as an own property
HasOwn(val, p) ==
  CASE val.t = "obj" -> HasKey(val.o, p)
    [] val.t = "arr" -> p = LengthKey \/ (IsIndex(p) /\ StrToNat(p) < Len(val.a))
    [] val.t = "str" -> p = LengthKey \/ (IsIndex(p) /\ StrToNat(p) < Len(val.s))
    [] val.t = "fn" -> p = NameKey
    [] OTHER -> FALSE

\* the own property p of val
OwnProp(val, p) ==
  CASE val.t = "obj" -> Lookup(val.o, p)
    [] val.t = "arr" ->
         IF p = LengthKey THEN Num(Len(val.a)) ELSE val.a[StrToNat(p) + 1]
    [] val.t = "str" ->
         IF p = LengthKey THEN Num(Len(val.s)) ELSE Str(<<val.s[StrToNat(p) + 1]>>)
    [] OTHER -> Str(val.name)

\* the property p a value finds on its prototype: of the inherited
\* properties the model has constructor
Inherited(val, p) ==
  IF p # ConstructorKey THEN Undefined
  ELSE CASE val.t = "obj" -> Fn(<<"O", "b", "j", "e", "c", "t">>)
         [] val.t = "arr" -> Fn(<<"A", "r", "r", "a", "y">>)
         [] val.t = "str" -> Fn(<<"S", "t", "r", "i", "n", "g">>)
         [] val.t = "num" -> Fn(<<"N", "u", "m", "b", "e", "r">>)
         [] val.t = "bool" -> Fn(<<"B", "o", "o", "l", "e", "a", "n">>)
         [] OTHER -> Fn(<<"F", "u", "n", "c", "t", "i", "o", "n">>)

\* val?.[p] and vars[step]: nothing on null and undefined; else the own
\* property, else the inherited one
GetProp(val, p) ==
  IF IsNullish(val) THEN Undefined
  ELSE IF HasOwn(val, p) THEN OwnProp(val, p)
  ELSE Inherited(val, p)

\* obj[k] = v on a plain object: an existing key keeps its place
SetProp(o, k, v) ==
  IF HasKey(o, k)
  THEN [j \in 1..Len(o) |-> IF o[j][1] = k THEN <<k, v>> ELSE o[j]]
  ELSE Append(o, <<k, v>>)

RECURSIVE AssignAll(_, _)
\* Object.assign(target, source)
AssignAll(target, source) ==
  IF source = <<>> THEN target
  ELSE AssignAll(SetProp(target, source[1][1], source[1][2]), Tail(source))

RECURSIVE ToStr(_)
RECURSIVE JoinArr(_)
\* Array.prototype.join(','): null and undefined elements are empty
JoinArr(a) ==
  IF a = <<>> THEN <<>>
  ELSE (IF IsNullish(a[1]) THEN <<>> ELSE ToStr(a[1]))
       \o (IF Len(a) > 1 THEN <<",">> \o JoinArr(Tail(a)) ELSE <<>>)

\* String(v)
ToStr(v) ==
  CASE v.t = "undefined" -> <<"u", "n", "d", "e", "f", "i", "n", "e", "d">>
    [] v.t = "null" -> <<"n", "u", "l", "l">>
    [] v.t = "bool" -> IF v.b THEN <<"t", "r", "u", "e">> ELSE <<"f", "a", "l", "s", "e">>
    [] v.t = "num" -> NumToStr(v.n)
    [] v.t = "str" -> v.s
    [] v.t = "arr" -> JoinArr(v.a)
    [] v.t = "fn" -> <<"f", "u", "n", "c", "t", "i", "o", "n", " ">> \o v.name
                     \o <<"(", ")", " ", "{", " ", "[", "n", "a", "t", "i", "v", "e", " ",
                          "c", "o", "d", "e", "]", " ", "}">>
    [] OTHER -> <<"[", "o", "b", "j", "e", "c", "t", " ", "O", "b", "j", "e", "c", "t", "]">>

ToStringKey == <<"t", "o", "S", "t", "r", "i", "n", "g">>

RECURSIVE StringThrows(_)
\* String(v) throws a TypeError: an object whose own toString hides the
\* inherited one converts to no primitive, and an array joins its elements
StringThrows(v) ==
  CASE v.t = "obj" -> HasKey(v.o, ToStringKey)
    [] v.t = "arr" -> \E j \in 1..Len(v.a) : ~IsNullish(v.a[j]) /\ StringThrows(v.a[j])
    [] OTHER -> FALSE

RECURSIVE Quote(_)
\* the characters of a JSON string literal body: quote and backslash escaped
Quote(s) ==
  IF s = <<>> THEN <<>>
  ELSE (IF s[1] \in {"\"", "\\"} THEN <<"\\", s[1]>> ELSE <<s[1]>>) \o Quote(Tail(s))

RECURSIVE JsonText(_)
RECURSIVE JsonMembers(_, _)
RECURSIVE JsonElements(_)
\* the members of an object literal; members whose value is undefined or a
\* function are left out
JsonMembers(o, first) ==
  IF o = <<>> THEN <<>>
  ELSE IF o[1][2].t \in {"undefined", "fn"} THEN JsonMembers(Tail(o), first)
  ELSE (IF first THEN <<>> ELSE <<",">>)
       \o <<"\"">> \o Quote(o[1][1]) \o <<"\"", ":">> \o JsonText(o[1][2])
       \o JsonMembers(Tail(o), FALSE)

\* the elements of an array literal; undefined and function elements are null
JsonElements(a) ==
  IF a = <<>> THEN <<>>
  ELSE JsonText(a[1]) \o (IF Len(a) > 1 THEN <<",">> \o JsonElements(Tail(a)) ELSE <<>>)

\* the text JSON.stringify(v) produces for a value other than undefined
JsonText(v) ==
  CASE v.t = "str" -> <<"\"">> \o Quote(v.s) \o <<"\"">>
    [] v.t = "obj" -> <<"{">> \o JsonMembers(v.o, TRUE) \o <<"}">>
    [] v.t = "arr" -> <<"[">> \o JsonElements(v.a) \o <<"]">>
    [] v.t \in {"undefined", "fn"} -> <<"n", "u", "l", "l">>
    [] OTHER -> ToStr(v)

\* JSON.stringify(v): undefined for undefined and for a function, else a string
Stringify(v) == IF v.t \in {"undefined", "fn"} THEN Undefined ELSE Str(JsonText(v))

\* a.includes(b) on strings
Includes(a, b) ==
  \E p \in 0..(Len(a) - Len(b)) : \A j \in 1..Len(b) : a[p + j] = b[j]

(***************************************************************************)
(* Template engine and field extractor (helpers of the handler)           *)
(***************************************************************************)
\* \w of the pattern: [A-Za-z0-9_]
WordChars ==
  {"a", "b", "c", "d", "e", "f", "g", "h", "i", "j", "k", "l", "m", "n", "o", "p", "q",
   "r", "s", "t", "u", "v", "w", "x", "y", "z",
   "A", "B", "C", "D", "E", "F", "G", "H", "I", "J", "K", "L", "M", "N", "O", "P", "Q",
   "R", "S", "T", "U", "V", "W", "X", "Y", "Z",
   "0", "1", "2", "3", "4", "5", "6", "7", "8", "9", "_"}

\* \s of the pattern
SpaceChars == {" ", "\t", "\n", "\r"}

RECURSIVE SkipWhile(_, _, _)
\* the first position >= p of str whose character is not in chars (Len+1 if none)
SkipWhile(str, p, chars) ==
  IF p <= Len(str) /\ str[p] \in chars THEN SkipWhile(str, p + 1, chars) ELSE p

\* /{{\s*([\w.]+)\s*}}/ tried at position p: the match or [ok |-> FALSE]
MatchPlaceholder(str, p) ==
  IF ~(p + 1 <= Len(str) /\ str[p] = "{" /\ str[p + 1] = "{") THEN [ok |-> FALSE]
  ELSE LET q1 == SkipWhile(str, p + 2, SpaceChars)
           q2 == SkipWhile(str, q1, WordChars \cup {"."})
           q3 == SkipWhile(str, q2, SpaceChars)
       IN IF q2 > q1 /\ q3 + 1 <= Len(str) /\ str[q3] = "}" /\ str[q3 + 1] = "}"
          THEN [ok |-> TRUE, path |-> SubSeq(str, q1, q2 - 1), end |-> q3 + 1]
          ELSE [ok |-> FALSE]

RECURSIVE Split(_, _)
\* str.split(sep) for a one-character separator
Split(str, sep) ==
  IF \E j \in 1..Len(str) : str[j] = sep
  THEN LET j == CHOOSE j \in 1..Len(str) : str[j] = sep /\ \A h \in 1..(j - 1) : str[h] # sep
       IN <<SubSeq(str, 1, j - 1)>> \o Split(SubSeq(str, j + 1, Len(str)), sep)
  ELSE <<str>>

RECURSIVE Walk(_, _)
\* for (const p of parts) val = val?.[p]
Walk(val, parts) ==
  IF parts = <<>> THEN val ELSE Walk(GetProp(val, parts[1]), Tail(parts))

\* the value the replacement callback of renderTemplate finds for a path;
\* vars is the scope object
Resolved(path, vars) ==
  LET parts == Split(path, ".")
  IN Walk(GetProp(Obj(vars), parts[1]), Tail(parts))

\* the callback with null rendered as the empty string
ResolveNullEmpty(path, vars) ==
  LET val == Resolved(path, vars)
  IN IF ~IsNullish(val) THEN ToStr(val) ELSE <<>>

\* the replacement callback of renderTemplate
Resolve(path, vars) ==
  LET val == Resolved(path, vars)
  IN IF val # Undefined THEN ToStr(val) ELSE <<>>

RECURSIVE RenderFrom(_, _, _)
RenderFrom(str, vars, p) ==
  IF p > Len(str) THEN <<>>
  ELSE LET m == MatchPlaceholder(str, p)
       IN IF m.ok THEN Resolve(m.path, vars) \o RenderFrom(str, vars, m.end + 1)
          ELSE <<str[p]>> \o RenderFrom(str, vars, p + 1)

\* the template rendered, and the result rendered once more
renderTemplateTwice(str, vars) == RenderFrom(RenderFrom(str, vars, 1), vars, 1)

renderTemplate(str, vars) == RenderFrom(str, vars, 1)

RECURSIVE ThrowsFrom(_, _, _)
ThrowsFrom(str, vars, p) ==
  IF p > Len(str) THEN FALSE
  ELSE LET m == MatchPlaceholder(str, p)
       IN IF m.ok THEN \/ StringThrows(Resolved(m.path, vars))
                       \/ ThrowsFrom(str, vars, m.end + 1)
          ELSE ThrowsFrom(str, vars, p + 1)

\* renderTemplate(str, vars) throws: String(val) throws in the callback
renderThrows(str, vars) == ThrowsFrom(str, vars, 1)

\* the extractor keeping the variables whose path resolves to a value only
extractFieldsDefined(obj, extract) ==
  SelectSeq([j \in 1..Len(extract) |-> <<extract[j][1], Walk(obj, Split(extract[j][2], "."))>>],
            LAMBDA e : e[2] # Undefined)

\* extract is a sequence of <<variable name, dotted path>>
extractFields(obj, extract) ==
  [j \in 1..Len(extract) |-> <<extract[j][1], Walk(obj, Split(extract[j][2], "."))>>]

(***************************************************************************)
(* Response validator                                                      *)
(***************************************************************************)
\* an expectation descriptor with nothing set: step.expect || {}
NoExpect == [status |-> Undefined, contentType |-> Undefined,
             body |-> Undefined, bodyRegex |-> Undefined]

RECURSIVE ParenDepthOk(_, _)
ParenDepthOk(p, depth) ==
  IF p = <<>> THEN depth = 0
  ELSE IF p[1] = "(" THEN ParenDepthOk(Tail(p), depth + 1)
  ELSE IF p[1] = ")" THEN depth > 0 /\ ParenDepthOk(Tail(p), depth - 1)
  ELSE ParenDepthOk(Tail(p), depth)

\* new RegExp(p) succeeds; the patterns of the model are literal characters
\* and plain groups, and an unbalanced parenthesis is a SyntaxError
RegExpCompiles(p) == ParenDepthOk(p, 0)

\* pattern.test(target) for such a pattern: the literal text occurs in target
RegExpTest(p, target) ==
  Includes(target, SelectSeq(p, LAMBDA c : c \notin {"(", ")"}))

\* Object.entries(v) of an object or an array
Entries(v) ==
  IF v.t = "arr" THEN [j \in 1..Len(v.a) |-> <<NatToStr(j - 1), v.a[j]>>] ELSE v.o

\* BodyCheck demanding that the actual object has the expected keys only
BodyCheckExact(expect, responseBody) ==
  IF expect.body = Undefined
  THEN [throws |-> FALSE, matched |-> TRUE, reason |-> "No body expectation set."]
  ELSE IF TypeofObject(responseBody) /\ responseBody # Null /\ TypeofObject(expect.body)
  THEN IF expect.body = Null
       THEN [throws |-> TRUE, matched |-> FALSE, reason |-> "TypeError"]
       ELSE LET m == Stringify(responseBody) = Stringify(expect.body)
            IN [throws |-> FALSE, matched |-> m,
                reason |-> IF m THEN "Partial/exact body match succeeded."
                           ELSE "Partial/exact body match failed."]
  ELSE IF expect.body.t = "str"
  THEN LET m == Stringify(responseBody) = expect.body \/ responseBody = expect.body
       IN [throws |-> FALSE, matched |-> m,
           reason |-> IF m THEN "Exact string match succeeded."
                      ELSE "Exact string match failed."]
  ELSE [throws |-> FALSE, matched |-> FALSE, reason |-> "Body type mismatch."]

\* the body check without bodyRegex
BodyCheck(expect, responseBody) ==
  IF expect.body = Undefined
  THEN [throws |-> FALSE, matched |-> TRUE, reason |-> "No body expectation set."]
  ELSE IF TypeofObject(responseBody) /\ responseBody # Null /\ TypeofObject(expect.body)
  THEN IF expect.body = Null
       THEN [throws |-> TRUE, matched |-> FALSE, reason |-> "TypeError"]
       ELSE LET e == Entries(expect.body)
                m == \A j \in 1..Len(e) :
                       Stringify(GetProp(responseBody, e[j][1])) = Stringify(e[j][2])
            IN [throws |-> FALSE, matched |-> m,
                reason |-> IF m THEN "Partial/exact body match succeeded."
                           ELSE "Partial/exact body match failed."]
  ELSE IF expect.body.t = "str"
  THEN LET m == Stringify(responseBody) = expect.body \/ responseBody = expect.body
       IN [throws |-> FALSE, matched |-> m,
           reason |-> IF m THEN "Exact string match succeeded."
                      ELSE "Exact string match failed."]
  ELSE [throws |-> FALSE, matched |-> FALSE, reason |-> "Body type mismatch."]

\* the validation block of one response: [throws |-> TRUE] when the block
\* throws, else the validation and bodyValidation objects
Validate(expect, status, contentType, responseBody) ==
  LET validation ==
        [status |-> IF Truthy(expect.status) THEN Num(status) = expect.status ELSE TRUE,
         contentType |-> IF Truthy(expect.contentType)
                         THEN Includes(contentType, expect.contentType.s) ELSE TRUE]
      b == BodyCheck(expect, responseBody)
  IN IF b.throws THEN [throws |-> TRUE]
     ELSE IF Truthy(expect.bodyRegex)
     THEN IF ~RegExpCompiles(expect.bodyRegex.s) THEN [throws |-> TRUE]
          ELSE LET target == IF responseBody.t = "str" THEN responseBody.s
                             ELSE JsonText(responseBody)
                   regexMatch == RegExpTest(expect.bodyRegex.s, target)
               IN [throws |-> FALSE, validation |-> validation,
                   bodyValidation |->
                     [matched |-> regexMatch,
                      reason |-> IF regexMatch THEN "Regex match succeeded."
                                 ELSE "Regex match failed."]]
     ELSE [throws |-> FALSE, validation |-> validation,
           bodyValidation |-> [matched |-> b.matched, reason |-> b.reason]]

(***************************************************************************)
(* Bounds of the model                                                     *)
(***************************************************************************)
\* api_request invocations per behaviour
MaxInv == 2
\* steps per chain
MaxChain == 2
\* the clock runs over 0..MaxClock
MaxClock == 1

\* api_session_status / api_session_report invocations per behaviour
MaxQuery == 2

\* the numbers in the bodies a response is processed for run over 0..MaxNum
MaxNum == 1

\* the segments of a dotted path of the template and extractor inputs
MaxPath == 2

\* the steps of a chain whose loop is run on given answers
MaxSteps == 3

Invs == 1..MaxInv

Queries == 1..MaxQuery

(***************************************************************************)
(* Inputs of api_request and responses of the transport                    *)
(***************************************************************************)
GET == <<"G", "E", "T">>
JsonCT == <<"a", "p", "p", "l", "i", "c", "a", "t", "i", "o", "n", "/", "j", "s", "o", "n">>
TextCT == <<"t", "e", "x", "t">>
S1 == <<"s", "1">>

StatusKey == <<"s", "t", "a", "t", "u", "s">>

\* POST /l, expecting status 200, extracting t, and i under the name status,
\* from the body
LoginStep ==
  [name |-> <<"l", "o">>, method |-> <<"P">>, url |-> <<"/", "l">>,
   headers |-> Undefined, data |-> Undefined,
   expect |-> [NoExpect EXCEPT !.status = Num(200)],
   extract |-> Obj(<< <<<<"t">>, <<"t">>>>, <<StatusKey, <<"i">>>> >>)]

\* GET /u/{{t}} with header A: B {{lo.t}} and data '{{ t }}', expecting body {i: 1}
UserStep ==
  [name |-> <<"u">>, method |-> GET, url |-> <<"/", "u", "/", "{", "{", "t", "}", "}">>,
   headers |-> Obj(<< <<<<"A">>, <<"B", " ", "{", "{", "l", "o", ".", "t", "}", "}">>>> >>),
   data |-> Str(<<"{", "{", " ", "t", " ", "}", "}">>),
   expect |-> [NoExpect EXCEPT !.body = Obj(<< <<<<"i">>, Num(1)>> >>)],
   extract |-> Undefined]

\* GET /n expecting body null and a JSON content type
NullStep ==
  [name |-> <<"n">>, method |-> GET, url |-> <<"/", "n">>,
   headers |-> Undefined, data |-> Undefined,
   expect |-> [NoExpect EXCEPT !.body = Null, !.contentType = Str(JsonCT)],
   extract |-> Undefined]

\* the chains called are the prefixes of one scenario, up to MaxChain steps,
\* and the chain of UserStep alone, whose placeholders no step of it defines
Script == <<LoginStep, UserStep, NullStep>>

Chains == {SubSeq(Script, 1, n) : n \in {m \in 0..MaxChain : m <= Len(Script)}}
          \cup {<<UserStep>>}

SessionIdArgs == {Undefined, Str(S1)}

ChainInput(sid, c) ==
  [sessionId |-> sid, method |-> GET, url |-> Undefined, headers |-> Undefined,
   data |-> Undefined, expect |-> Undefined, chain |-> Arr(c)]

SingleInput(sid, url, expect) ==
  [sessionId |-> sid, method |-> GET, url |-> url, headers |-> Undefined,
   data |-> Undefined, expect |-> expect, chain |-> Undefined]

\* single-mode inputs: without url; GET /n with the expectation of NullStep
\* and an expected status; GET /l without expectations
SingleInputs(sid) ==
  {SingleInput(sid, Undefined, Undefined),
   SingleInput(sid, Str(NullStep.url), [NullStep.expect EXCEPT !.status = Num(200)]),
   SingleInput(sid, Str(LoginStep.url), Undefined)}

Inputs ==
  UNION {{ChainInput(sid, c) : c \in Chains} \cup SingleInputs(sid) : sid \in SessionIdArgs}

\* what the transport can answer: a JSON object, or plain text
OkResponse ==
  [status |-> 200, statusText |-> <<"O", "K">>, ct |-> Str(JsonCT),
   json |-> Obj(<< <<<<"t">>, Str(<<"a", "b">>)>>, <<<<"i">>, Num(1)>> >>), text |-> <<>>]

NotFoundResponse ==
  [status |-> 404, statusText |-> <<"N", "F">>, ct |-> Str(TextCT),
   json |-> Undefined, text |-> <<"n", "o">>]

Responses == {OkResponse, NotFoundResponse}

\* crypto.randomUUID(): an identifier no caller presents and no other call draws
uuid(i) == <<"g", Digits[i + 1]>>

SessionKeys == {S1} \cup {uuid(i) : i \in Invs}

(***************************************************************************)
(* Inputs of the response processing taken alone: the validation block    *)
(* and the chain step block applied to one expectation and one response   *)
(***************************************************************************)
ProbeKeys == {<<"i">>, <<"t">>}

ProbeVals == {Num(n) : n \in 0..MaxNum} \cup {Str(<<"a">>)}

\* the objects with at most one property per key of ProbeKeys, in both orders
ProbeObjects ==
  {Obj(<<>>)}
  \cup {Obj(<< <<k, v>> >>) : k \in ProbeKeys, v \in ProbeVals}
  \cup {Obj(<< <<kk[1], v1>>, <<kk[2], v2>> >>) :
           kk \in {x \in ProbeKeys \X ProbeKeys : x[1] # x[2]},
           v1 \in ProbeVals, v2 \in ProbeVals}

JsonResponse(body) ==
  [status |-> 200, statusText |-> <<"O", "K">>, ct |-> Str(JsonCT),
   json |-> body, text |-> <<>>]

TextResponse(text) ==
  [status |-> 200, statusText |-> <<"O", "K">>, ct |-> Str(TextCT),
   json |-> Undefined, text |-> text]

\* JSON objects, JSON null, a JSON array, a JSON number, and plain text
ProbeResponses ==
  {JsonResponse(b) : b \in ProbeObjects \cup {Null, Arr(<<Num(1)>>), Num(1)}}
  \cup {TextResponse(<<"a">>)}

\* expect.body: absent, objects, null, an array, a number, strings
ProbeExpectBodies ==
  ProbeObjects \cup {Undefined, Null, Arr(<<Num(1)>>), Num(1), Str(<<"a">>),
                     Str(<<"\"", "a", "\"">>)}

\* expect.bodyRegex: absent, a literal, an unbalanced group, the empty string
ProbeRegexes == {Undefined, Str(<<"a">>), Str(<<"(">>), Str(<<>>)}

ValidateProbes ==
  {[pc |-> "call", fn |-> "validate",
    expect |-> [NoExpect EXCEPT !.body = b, !.bodyRegex = x],
    resp |-> r, out |-> Undefined] :
     b \in ProbeExpectBodies, x \in ProbeRegexes, r \in ProbeResponses}

LoName == <<"l", "o">>

\* step.extract: absent; t; a variable called as the step; both; a path
\* that resolves to nothing under the step's name
ProbeExtracts ==
  {Undefined,
   Obj(<< <<<<"t">>, <<"t">>>> >>),
   Obj(<< <<LoName, <<"t">>>> >>),
   Obj(<< <<<<"t">>, <<"t">>>>, <<LoName, <<"i">>>> >>),
   Obj(<< <<LoName, <<"x">>>> >>)}

\* the scope before the step: empty, or holding lo and t from earlier steps
ProbeScopes ==
  {<<>>,
   << <<LoName, Str(<<"o">>)>>, <<<<"t">>, Num(0)>> >>}

StepProbes ==
  {[pc |-> "call", fn |-> "step",
    step |-> [name |-> LoName, method |-> GET, url |-> <<"/", "l">>,
              headers |-> Undefined, data |-> Undefined, expect |-> Undefined,
              extract |-> e],
    resp |-> r, stepVars |-> v, out |-> Undefined] :
     e \in ProbeExtracts, v \in ProbeScopes,
     r \in {OkResponse, NotFoundResponse, JsonResponse(Null)}}

\* expect.status: absent, 0, the status of OkResponse and of NotFoundResponse
ProbeStatuses == {Undefined, Num(0), Num(OkResponse.status), Num(NotFoundResponse.status)}

\* expect.contentType: absent, the empty string, the two types answered
ProbeContentTypes == {Undefined, Str(<<>>), Str(JsonCT), Str(TextCT)}

\* the status and content type expectations against the two answers of the
\* transport
StatusProbes ==
  {[pc |-> "call", fn |-> "validate",
    expect |-> [NoExpect EXCEPT !.status = st, !.contentType = c],
    resp |-> r, out |-> Undefined] :
     st \in ProbeStatuses, c \in ProbeContentTypes, r \in Responses}

(***************************************************************************)
(* Inputs of the template engine and of the field extractor taken alone   *)
(***************************************************************************)
\* path segments: two names, a name bound to null, an inherited name
ProbeSegments == {<<"a">>, <<"b">>, <<"n">>, ConstructorKey}

RECURSIVE JoinDots(_)
\* segs.join('.')
JoinDots(segs) ==
  IF Len(segs) = 1 THEN segs[1] ELSE segs[1] \o <<".">> \o JoinDots(Tail(segs))

\* the dotted paths of 1..MaxPath segments
ProbePaths == {JoinDots(segs) : segs \in UNION {[1..n -> ProbeSegments] : n \in 1..MaxPath}}

\* the scopes: empty; nested objects, numbers and null; null at the first
\* segment, booleans; values that are themselves template text; an own
\* property holding undefined and an object with an own toString; an array
\* and an empty object
ProbeVars ==
  {<<>>}
  \cup {<< <<<<"a">>, Obj(<< <<<<"b">>, Str(<<"v">>)>>, <<<<"n">>, Null>> >>)>>,
           <<<<"b">>, Num(k)>>, <<<<"n">>, Null>> >> : k \in 0..MaxNum}
  \cup {<< <<<<"a">>, Null>>, <<<<"b">>, Bool(TRUE)>>, <<<<"n">>, Bool(FALSE)>> >>,
         << <<<<"a">>, Str(<<"{", "{", "b", "}", "}">>)>>, <<<<"b">>, Str(<<"z">>)>> >>,
         << <<<<"a">>, Str(<<"{", "{">>)>>, <<<<"b">>, Str(<<"z">>)>> >>,
         << <<<<"a">>, Obj(<< <<ToStringKey, Num(1)>> >>)>>, <<<<"b">>, Undefined>> >>,
         << <<<<"a">>, Arr(<<Num(0), Null>>)>>, <<<<"b">>, Obj(<<>>)>> >>}

\* the text before and after the placeholder, and the blanks inside it
ProbePrefixes == {<<>>, <<"x", "{">>}

ProbeSuffixes == {<<>>, <<"}", "y">>, <<"b", "}", "}">>}

ProbeBlanks == {<<>>, <<" ">>}

\* texts without a placeholder
ProbePlain ==
  {<<>>, <<"x", "{", "a", "}", "y">>, <<"{", "{", "}", "}">>,
   <<"{", "{", "a", "-", "b", "}", "}">>, <<"{", " ", "{", "a", "}", "}">>}

\* renderTemplate(str, vars) for a text with one placeholder and for a text
\* with none
RenderProbes ==
  {[pc |-> "call", fn |-> "render", form |-> "placeholder",
    pre |-> pre, path |-> path, suf |-> suf,
    str |-> pre \o <<"{", "{">> \o sp \o path \o sp \o <<"}", "}">> \o suf,
    vars |-> v, out |-> Undefined] :
     pre \in ProbePrefixes, path \in ProbePaths, suf \in ProbeSuffixes,
     sp \in ProbeBlanks, v \in ProbeVars}
  \cup {[pc |-> "call", fn |-> "render", form |-> "plain",
          pre |-> str, path |-> <<>>, suf |-> <<>>, str |-> str,
          vars |-> v, out |-> Undefined] : str \in ProbePlain, v \in ProbeVars}

\* the values extracted from: undefined, null, numbers, a string, an array,
\* objects nested and flat
ProbeSources ==
  {Undefined, Null, Str(<<"a", "b">>), Arr(<<Num(0)>>), Obj(<<>>),
   Obj(<< <<<<"a">>, Null>> >>)}
  \cup {Num(k) : k \in 0..MaxNum}
  \cup {Obj(<< <<<<"a">>, Obj(<< <<<<"b">>, Str(<<"v">>)>>, <<<<"n">>, Null>> >>)>>,
              <<<<"b">>, Num(k)>>, <<<<"n">>, Null>> >>) : k \in 0..MaxNum}

\* the extract descriptors: absent, empty, one variable, two variables
ProbeDescriptors ==
  {Undefined, Obj(<<>>)}
  \cup {Obj(<< <<<<"x">>, p>> >>) : p \in ProbePaths}
  \cup {Obj(<< <<<<"x">>, p>>, <<<<"y">>, q>> >>) : p \in ProbePaths, q \in ProbeSegments}

\* extractFields(obj, extract)
ExtractProbes ==
  {[pc |-> "call", fn |-> "extract", obj |-> o, extract |-> d, out |-> Undefined] :
     o \in ProbeSources, d \in ProbeDescriptors}

(***************************************************************************)
(* Inputs of the report taken alone: sessions holding one single request  *)
(* in which one caller- or server-controlled text carries markup          *)
(***************************************************************************)
MarkupChars == {"&", "<", ">", "\"", "'"}

\* the texts a caller or the answering server chooses
TextFields ==
  {"none", "sessionId", "method", "url", "headerName", "headerValue", "data",
   "statusText", "contentType", "text", "json", "expectContentType", "expectBody",
   "bodyRegex"}

\* the text of field f when field g carries the character c
Carried(f, g, c, plain) == IF f = g THEN <<c>> ELSE plain

\* a single request and its answer with the character c in field g
MarkedInput(g, c) ==
  [sessionId |-> Str(Carried("sessionId", g, c, S1)),
   method |-> Carried("method", g, c, GET),
   url |-> Str(Carried("url", g, c, LoginStep.url)),
   headers |-> IF g \in {"headerName", "headerValue"}
               THEN Obj(<< <<Carried("headerName", g, c, <<"A">>),
                             Carried("headerValue", g, c, <<"B">>)>> >>)
               ELSE Undefined,
   data |-> IF g = "data" THEN Str(<<c>>) ELSE Undefined,
   expect |-> IF g = "expectContentType" THEN [NoExpect EXCEPT !.contentType = Str(<<c>>)]
              ELSE IF g = "expectBody" THEN [NoExpect EXCEPT !.body = Str(<<c>>)]
              ELSE IF g = "bodyRegex" THEN [NoExpect EXCEPT !.bodyRegex = Str(<<c>>)]
              ELSE Undefined,
   chain |-> Undefined]

MarkedResponse(g, c) ==
  IF g = "json"
  THEN [OkResponse EXCEPT !.json = Obj(<< <<<<c>>, Str(<<c>>)>> >>)]
  ELSE [NotFoundResponse EXCEPT !.statusText = Carried("statusText", g, c, @),
                                !.ct = Str(Carried("contentType", g, c, TextCT)),
                                !.text = Carried("text", g, c, @)]

\* renderHtmlReport(session) for the session the input and the answer leave
ReportProbes ==
  {[pc |-> "call", fn |-> "report", field |-> g, char |-> c,
    input |-> MarkedInput(g, c), resp |-> MarkedResponse(g, c), out |-> Undefined] :
     g \in TextFields, c \in MarkupChars}

(***************************************************************************)
(* Inputs of the chain loop taken alone: chains of up to MaxSteps steps   *)
(* around one variable, and the answer to each step                       *)
(***************************************************************************)
\* GET /{{v}}, by what the step does with the variable v: extract it from t,
\* from a path that the answers do not have (miss), or from i (again); be
\* named after it; both; neither (plain). The steps of kind extract and
\* named carry an expectation
KindStep(kind, v) ==
  [name |-> IF kind \in {"named", "both"} THEN v ELSE <<"p">>,
   method |-> GET, url |-> <<"/", "{", "{">> \o v \o <<"}", "}">>,
   headers |-> Undefined, data |-> Undefined,
   expect |-> CASE kind = "extract" -> [NoExpect EXCEPT !.status = Num(200)]
                [] kind = "named" -> [NoExpect EXCEPT !.body = Obj(<< <<<<"i">>, Num(1)>> >>)]
                [] OTHER -> Undefined,
   extract |-> CASE kind \in {"extract", "both"} -> Obj(<< <<v, <<"t">>>> >>)
                 [] kind = "miss" -> Obj(<< <<v, <<"x">>>> >>)
                 [] kind = "again" -> Obj(<< <<v, <<"i">>>> >>)
                 [] OTHER -> Undefined]

\* an expectation given at the top level of the input, next to chain: one
\* that the answer OkResponse fails in every part
TopExpect ==
  [NoExpect EXCEPT !.status = Num(404), !.contentType = Str(TextCT),
                   !.body = Obj(<< <<<<"z">>, Num(0)>> >>)]

\* the loop of chain mode for a chain and the answers to its steps; k,
\* stepVars and results are the loop's locals, entries the log entries pushed
ChainOf(v, e, kinds, resps) ==
  [pc |-> "call", fn |-> "chain", var |-> v,
   input |-> [sessionId |-> Undefined, method |-> GET, url |-> Undefined,
              headers |-> Undefined, data |-> Undefined, expect |-> e,
              chain |-> Arr([j \in 1..Len(kinds) |-> KindStep(kinds[j], v)])],
   resps |-> resps, k |-> 0, stepVars |-> <<>>, results |-> <<>>, entries |-> <<>>,
   out |-> Undefined]

\* the chains around a variable name that the placeholder pattern holds,
\* with and without a top-level expect, and around one that it does not hold
ChainProbes ==
  UNION {{ChainOf(<<"v">>, e, kinds, resps) :
            e \in {Undefined, TopExpect},
            kinds \in [1..n -> {"extract", "miss", "again", "named", "both", "plain"}],
            resps \in [1..n -> Responses]}
         \cup {ChainOf(v, Undefined, kinds, resps) :
                  v \in {<<"a", "-", "b">>},
                  kinds \in [1..n -> {"extract", "miss", "plain"}],
                  resps \in [1..n -> Responses]} : n \in 1..MaxSteps}

Probes ==
  ValidateProbes \cup StepProbes \cup StatusProbes \cup RenderProbes \cup ExtractProbes
  \cup ReportProbes \cup ChainProbes

(***************************************************************************)
(* State                                                                   *)
(***************************************************************************)
VARIABLES
  sessionStore,  \* the Map: session id -> reference into heap, 0 when absent
  heap,          \* the session objects ever allocated
  owner,         \* history: for each session object, who pushed each log entry
  clock,         \* the last value new Date() returned
  inv,           \* the local state of each api_request invocation
  net,           \* the transport calls in flight: [inv, step]
  query,         \* the local state of each api_session_status / _report invocation
  disk,          \* the file system: the reports directory and its files
  probe          \* one application of a helper of the handler to given inputs

vars == <<sessionStore, heap, owner, clock, inv, net, query, disk, probe>>

IdleInv ==
  [pc |-> "idle", input |-> Undefined, sessionId |-> <<>>, session |-> 0, k |-> 0,
   stepVars |-> <<>>, results |-> <<>>, req |-> Undefined, ctx |-> "none",
   ret |-> Undefined,
   calls |-> 0,       \* history: the transport calls issued
   threw |-> FALSE]   \* history: a transport call rejected

IdleQuery == [pc |-> "idle", tool |-> "", sessionId |-> <<>>, session |-> 0,
              result |-> Undefined]

IdleProbe == [pc |-> "none"]

Init ==
  /\ sessionStore = [id \in SessionKeys |-> 0]
  /\ heap = <<>>
  /\ owner = <<>>
  /\ clock = 0
  /\ inv = [i \in Invs |-> IdleInv]
  /\ net = {}
  /\ query = [q \in Queries |-> IdleQuery]
  /\ disk = [dir |-> FALSE, files |-> {}]
  /\ probe = IdleProbe

\* the values new Date() can return next: the clock never runs backwards
Now == {t \in {clock, clock + 1} : t <= MaxClock}

(***************************************************************************)
(* api_request: the handler, cut at its awaits                             *)
(***************************************************************************)
\* NewSession with another initial status
NewSessionPending(sessionId, t) ==
  [sessionId |-> sessionId, startTime |-> t, logs |-> <<>>, status |-> "pending"]

NewSession(sessionId, t) ==
  [sessionId |-> sessionId, startTime |-> t, logs |-> <<>>, status |-> "running"]

\* SessionManagement creating the record without storing it in the Map
SessionManagementUnstored(store, hp, sessionId, t) ==
  IF store[sessionId] = 0
  THEN [store |-> store, heap |-> Append(hp, NewSession(sessionId, t)),
        session |-> Len(hp) + 1]
  ELSE [store |-> store, heap |-> hp, session |-> store[sessionId]]

\* SessionManagement without the has() test: every call sets a new record
SessionManagementFresh(store, hp, sessionId, t) ==
  [store |-> [store EXCEPT ![sessionId] = Len(hp) + 1],
   heap |-> Append(hp, NewSession(sessionId, t)),
   session |-> Len(hp) + 1]

\* SessionManagement stamping the record it finds with the time of the call
SessionManagementRestamp(store, hp, sessionId, t) ==
  IF store[sessionId] = 0
  THEN [store |-> [store EXCEPT ![sessionId] = Len(hp) + 1],
        heap |-> Append(hp, NewSession(sessionId, t)),
        session |-> Len(hp) + 1]
  ELSE [store |-> store, heap |-> [hp EXCEPT ![store[sessionId]].startTime = t],
        session |-> store[sessionId]]

\* if (!sessionStore.has(sessionId)) sessionStore.set(sessionId, {...})
\* and session = sessionStore.get(sessionId)
SessionManagement(store, hp, sessionId, t) ==
  IF store[sessionId] = 0
  THEN [store |-> [store EXCEPT ![sessionId] = Len(hp) + 1],
        heap |-> Append(hp, NewSession(sessionId, t)),
        session |-> Len(hp) + 1]
  ELSE [store |-> store, heap |-> hp, session |-> store[sessionId]]

\* PushLog assigning a new array that holds the entry alone
PushLogReplace(hp, ref, entry) == [hp EXCEPT ![ref].logs = <<entry>>]

\* PushLog with unshift in place of push
PushLogFront(hp, ref, entry) == [hp EXCEPT ![ref].logs = <<entry>> \o @]

\* PushLog that also marks the session completed
PushLogCompleting(hp, ref, entry) ==
  [hp EXCEPT ![ref].logs = Append(@, entry), ![ref].status = "completed"]

\* PushLog that also marks the session running again
PushLogReopening(hp, ref, entry) ==
  [hp EXCEPT ![ref].logs = Append(@, entry), ![ref].status = "running"]

\* session.logs.push(entry)
PushLog(hp, ref, entry) == [hp EXCEPT ![ref].logs = Append(@, entry)]

\* SetCompleted with the assignment left out
SetCompletedNot(hp, ref) == hp

\* session.status = 'completed'
SetCompleted(hp, ref) == [hp EXCEPT ![ref].status = "completed"]

RECURSIVE AllScopes(_)
\* the scopes of invocations 1..n merged into one object
AllScopes(n) == IF n = 0 THEN <<>> ELSE AssignAll(AllScopes(n - 1), inv[n].stepVars)

\* RenderRequest against one scope shared by all invocations
RenderRequestShared(step, stepVars) ==
  LET h == IF step.headers = Undefined THEN <<>> ELSE step.headers.o
      shared == AssignAll(AllScopes(MaxInv), stepVars)
  IN [method |-> IF step.method # <<>> THEN step.method ELSE GET,
      url |-> renderTemplate(step.url, shared),
      headers |-> Obj([j \in 1..Len(h) |-> <<h[j][1], renderTemplate(h[j][2], shared)>>]),
      data |-> IF step.data.t = "str" THEN Str(renderTemplate(step.data.s, shared))
               ELSE step.data]

\* RenderRequest sending the templates as they are
RenderRequestRaw(step, stepVars) ==
  [method |-> IF step.method # <<>> THEN step.method ELSE GET,
   url |-> step.url,
   headers |-> IF step.headers = Undefined THEN Obj(<<>>) ELSE step.headers,
   data |-> step.data]

\* the templates of a step rendered against the scope
RenderRequest(step, stepVars) ==
  LET h == IF step.headers = Undefined THEN <<>> ELSE step.headers.o
  IN [method |-> IF step.method # <<>> THEN step.method ELSE GET,
      url |-> renderTemplate(step.url, stepVars),
      headers |-> Obj([j \in 1..Len(h) |-> <<h[j][1], renderTemplate(h[j][2], stepVars)>>]),
      data |-> IF step.data.t = "str" THEN Str(renderTemplate(step.data.s, stepVars))
               ELSE step.data]

\* the body the handler reads off a response: json() or text() by content type
ReadResponse(resp) ==
  LET contentType == IF Truthy(resp.ct) THEN resp.ct.s ELSE <<>>
  IN [status |-> resp.status, statusText |-> resp.statusText, contentType |-> contentType,
      body |-> IF Includes(contentType, JsonCT) THEN resp.json ELSE Str(resp.text)]

\* the 'request' / 'single' log entry
RequestEntry(type, req, r, expect, v, t) ==
  [type |-> type, request |-> req,
   response |-> [status |-> r.status, statusText |-> r.statusText,
                 contentType |-> r.contentType, body |-> r.body],
   expectations |-> expect, validation |-> v.validation,
   bodyValidation |-> v.bodyValidation, timestamp |-> t]

\* the 'chain' log entry
ChainEntry(results, t) == [type |-> "chain", steps |-> results, timestamp |-> t]

\* StepBlock merging into the scope only the extracted variables that have
\* a value
StepBlockKeepDefined(step, req, resp, stepVars, t) ==
  LET r == ReadResponse(resp)
      expect == IF step.expect = Undefined THEN NoExpect ELSE step.expect
      v == Validate(expect, r.status, r.contentType, r.body)
      extracted == IF step.extract = Undefined THEN <<>>
                   ELSE extractFields(r.body, step.extract.o)
      bundle == AssignAll(extracted,
                          << <<<<"b", "o", "d", "y">>, r.body>>,
                             <<<<"s", "t", "a", "t", "u", "s">>, Num(r.status)>>,
                             <<<<"s", "t", "a", "t", "u", "s", "T", "e", "x", "t">>,
                               Str(r.statusText)>>,
                             <<<<"c", "o", "n", "t", "e", "n", "t", "T", "y", "p", "e">>,
                               Str(r.contentType)>> >>)
  IN IF v.throws THEN [throws |-> TRUE]
     ELSE [throws |-> FALSE,
           stepVars |-> SetProp(AssignAll(stepVars,
                                          SelectSeq(extracted, LAMBDA e : e[2] # Undefined)),
                                step.name, Obj(bundle)),
           result |-> [name |-> step.name, status |-> r.status,
                       statusText |-> r.statusText, contentType |-> r.contentType,
                       body |-> r.body, validation |-> v.validation,
                       bodyValidation |-> v.bodyValidation, extracted |-> Obj(extracted)],
           entry |-> RequestEntry("request", req, r, expect, v, t)]

\* StepBlock storing the bundle under the step name before the extracted
\* variables are merged
StepBlockNameFirst(step, req, resp, stepVars, t) ==
  LET r == ReadResponse(resp)
      expect == IF step.expect = Undefined THEN NoExpect ELSE step.expect
      v == Validate(expect, r.status, r.contentType, r.body)
      extracted == IF step.extract = Undefined THEN <<>>
                   ELSE extractFields(r.body, step.extract.o)
      bundle == AssignAll(extracted,
                          << <<<<"b", "o", "d", "y">>, r.body>>,
                             <<<<"s", "t", "a", "t", "u", "s">>, Num(r.status)>>,
                             <<<<"s", "t", "a", "t", "u", "s", "T", "e", "x", "t">>,
                               Str(r.statusText)>>,
                             <<<<"c", "o", "n", "t", "e", "n", "t", "T", "y", "p", "e">>,
                               Str(r.contentType)>> >>)
  IN IF v.throws THEN [throws |-> TRUE]
     ELSE [throws |-> FALSE,
           stepVars |-> AssignAll(SetProp(stepVars, step.name, Obj(bundle)), extracted),
           result |-> [name |-> step.name, status |-> r.status,
                       statusText |-> r.statusText, contentType |-> r.contentType,
                       body |-> r.body, validation |-> v.validation,
                       bodyValidation |-> v.bodyValidation, extracted |-> Obj(extracted)],
           entry |-> RequestEntry("request", req, r, expect, v, t)]

\* one chain step from its response to its log entry: the new scope, the
\* step result and the log entry, or throws
StepBlock(step, req, resp, stepVars, t) ==
  LET r == ReadResponse(resp)
      expect == IF step.expect = Undefined THEN NoExpect ELSE step.expect
      v == Validate(expect, r.status, r.contentType, r.body)
      extracted == IF step.extract = Undefined THEN <<>>
                   ELSE extractFields(r.body, step.extract.o)
      bundle == AssignAll(extracted,
                          << <<<<"b", "o", "d", "y">>, r.body>>,
                             <<<<"s", "t", "a", "t", "u", "s">>, Num(r.status)>>,
                             <<<<"s", "t", "a", "t", "u", "s", "T", "e", "x", "t">>,
                               Str(r.statusText)>>,
                             <<<<"c", "o", "n", "t", "e", "n", "t", "T", "y", "p", "e">>,
                               Str(r.contentType)>> >>)
  IN IF v.throws THEN [throws |-> TRUE]
     ELSE [throws |-> FALSE,
           stepVars |-> SetProp(AssignAll(stepVars, extracted), step.name, Obj(bundle)),
           result |-> [name |-> step.name, status |-> r.status,
                       statusText |-> r.statusText, contentType |-> r.contentType,
                       body |-> r.body, validation |-> v.validation,
                       bodyValidation |-> v.bodyValidation, extracted |-> Obj(extracted)],
           entry |-> RequestEntry("request", req, r, expect, v, t)]

\* SingleResult with ok always true
SingleResultAlwaysOk(r, v) ==
  [ok |-> TRUE,
   status |-> r.status, statusText |-> r.statusText, contentType |-> r.contentType,
   body |-> r.body, validation |-> v.validation, bodyValidation |-> v.bodyValidation]

\* the object a single-mode call returns
SingleResult(r, v) ==
  [ok |-> v.validation.status /\ v.validation.contentType /\ v.bodyValidation.matched,
   status |-> r.status, statusText |-> r.statusText, contentType |-> r.contentType,
   body |-> r.body, validation |-> v.validation, bodyValidation |-> v.bodyValidation]

\* the request a single-mode call sends and logs: no templating
SingleRequest(input) ==
  [method |-> IF input.method # <<>> THEN input.method ELSE GET,
   url |-> input.url.s, headers |-> input.headers, data |-> input.data]

\* after the session management: chain mode, or single mode and its url check
Dispatch(rec) ==
  IF rec.input.chain.t = "arr" THEN [rec EXCEPT !.pc = "newContext"]
  ELSE IF ~Truthy(rec.input.url)
  THEN [rec EXCEPT !.pc = "failed",
                   !.ret = [error |-> "URL is required for single request mode"]]
  ELSE [rec EXCEPT !.pc = "newContext"]

\* Advance with a loop that stops one step early
AdvanceOffByOne(rec) ==
  IF rec.k < Len(rec.input.chain.a) - 1
  THEN [rec EXCEPT !.pc = "fetch", !.calls = @ + 1,
                   !.req = RenderRequest(rec.input.chain.a[rec.k + 1], rec.stepVars)]
  ELSE [rec EXCEPT !.pc = "dispose", !.req = Undefined]

\* Advance with one retry of a step that was not answered 200
AdvanceRetry(rec) ==
  IF rec.k > 0 /\ rec.results[rec.k].status # 200 /\ rec.calls = rec.k
  THEN [rec EXCEPT !.pc = "fetch", !.calls = @ + 1, !.k = @ - 1,
                   !.results = SubSeq(@, 1, rec.k - 1)]
  ELSE IF rec.k < Len(rec.input.chain.a)
  THEN [rec EXCEPT !.pc = "fetch", !.calls = @ + 1,
                   !.req = RenderRequest(rec.input.chain.a[rec.k + 1], rec.stepVars)]
  ELSE [rec EXCEPT !.pc = "dispose", !.req = Undefined]

\* Advance leaving the loop after a step whose validation failed
AdvanceStopOnFailure(rec) ==
  IF /\ rec.k < Len(rec.input.chain.a)
     /\ (rec.k > 0 => /\ rec.results[rec.k].validation.status
                      /\ rec.results[rec.k].validation.contentType
                      /\ rec.results[rec.k].bodyValidation.matched)
  THEN [rec EXCEPT !.pc = "fetch", !.calls = @ + 1,
                   !.req = RenderRequest(rec.input.chain.a[rec.k + 1], rec.stepVars)]
  ELSE [rec EXCEPT !.pc = "dispose", !.req = Undefined]

\* the head of the chain loop: the next step is rendered and its fetch
\* awaited, or the loop is over and context.dispose() is awaited
Advance(rec) ==
  IF rec.k < Len(rec.input.chain.a)
  THEN [rec EXCEPT !.pc = "fetch", !.calls = @ + 1,
                   !.req = RenderRequest(rec.input.chain.a[rec.k + 1], rec.stepVars)]
  ELSE [rec EXCEPT !.pc = "dispose", !.req = Undefined]

\* Issued with the fetches of all remaining steps started together
IssuedAll(i, rec) ==
  IF rec.pc = "fetch"
  THEN {[inv |-> i, step |-> s] :
          s \in (rec.k + 1)..(IF rec.input.chain.t = "arr" THEN Len(rec.input.chain.a)
                              ELSE rec.k + 1)}
  ELSE {}

\* the transport calls an invocation has issued when it suspends in rec
Issued(i, rec) == IF rec.pc = "fetch" THEN {[inv |-> i, step |-> rec.k + 1]} ELSE {}

\* Reject with the rejection caught and the chain summary still written
RejectCaught(rec, message) == [rec EXCEPT !.pc = "dispose", !.req = Undefined]

\* a rejected await is not caught anywhere in the handler
Reject(rec, message) == [rec EXCEPT !.pc = "failed", !.ret = [error |-> message]]

IsChain(rec) == rec.input.chain.t = "arr"

\* the handler is called: session management, then the mode's first await
Start(i) ==
  /\ inv[i].pc = "idle"
  /\ \A j \in Invs : j < i => inv[j].pc # "idle"
  /\ \E input \in Inputs :
       LET sessionId == IF Truthy(input.sessionId) THEN input.sessionId.s ELSE uuid(i)
       IN \E t \in (IF sessionStore[sessionId] = 0 THEN Now ELSE {clock}) :
            LET m == SessionManagement(sessionStore, heap, sessionId, t)
                rec == [IdleInv EXCEPT !.input = input, !.sessionId = sessionId,
                                       !.session = m.session]
            IN /\ sessionStore' = m.store
               /\ heap' = m.heap
               /\ owner' = IF Len(m.heap) > Len(heap) THEN Append(owner, <<>>) ELSE owner
               /\ clock' = t
               /\ inv' = [inv EXCEPT ![i] = Dispatch(rec)]
               /\ UNCHANGED <<net, query, disk, probe>>

\* import('playwright') and request.newContext() have resolved; the two
\* awaits are one suspension, nothing is read or written between them
ContextReady(i) ==
  /\ inv[i].pc = "newContext"
  /\ LET rec == [inv[i] EXCEPT !.ctx = "open"]
         next == IF IsChain(rec) THEN Advance(rec)
                 ELSE [rec EXCEPT !.pc = "fetch", !.calls = @ + 1,
                                  !.req = SingleRequest(rec.input)]
     IN /\ inv' = [inv EXCEPT ![i] = next]
        /\ net' = net \cup Issued(i, next)
  /\ UNCHANGED <<sessionStore, heap, owner, clock, query, disk, probe>>

\* context.fetch(), response.json() or response.text() rejects; the awaits
\* of the fetch and of the body are one suspension, only locals are read
\* between them
TransportThrows(i) ==
  /\ inv[i].pc = "fetch"
  /\ inv' = [inv EXCEPT ![i] = Reject([inv[i] EXCEPT !.threw = TRUE], "transport")]
  /\ net' = net \ {[inv |-> i, step |-> inv[i].k + 1]}
  /\ UNCHANGED <<sessionStore, heap, owner, clock, query, disk, probe>>

\* ChainStep with a step that has no expect taking the one of the input
ChainStepInheriting(input, k) ==
  IF input.chain.a[k].expect = Undefined
  THEN [input.chain.a[k] EXCEPT !.expect = input.expect]
  ELSE input.chain.a[k]

\* the step the k-th turn of the loop over input.chain works on
ChainStep(input, k) == input.chain.a[k]

\* chain mode: the response of the current step arrives
ChainResponds(i) ==
  /\ inv[i].pc = "fetch"
  /\ IsChain(inv[i])
  /\ \E resp \in Responses :
       LET rec == inv[i]
           step == ChainStep(rec.input, rec.k + 1)
           throws == StepBlock(step, rec.req, resp, rec.stepVars, clock).throws
       IN \E t \in (IF throws THEN {clock} ELSE Now) :
            LET b == StepBlock(step, rec.req, resp, rec.stepVars, t)
                next == IF throws THEN Reject(rec, "validation")
                        ELSE Advance([rec EXCEPT !.k = @ + 1, !.stepVars = b.stepVars,
                                                 !.results = Append(@, b.result)])
            IN /\ heap' = IF throws THEN heap ELSE PushLog(heap, rec.session, b.entry)
               /\ owner' = IF throws THEN owner
                           ELSE [owner EXCEPT ![rec.session] =
                                   Append(@, [inv |-> i, step |-> rec.k + 1])]
               /\ clock' = t
               /\ inv' = [inv EXCEPT ![i] = next]
               /\ net' = (net \ {[inv |-> i, step |-> rec.k + 1]}) \cup Issued(i, next)
  /\ UNCHANGED <<sessionStore, query, disk, probe>>

\* chain mode: context.dispose() has resolved
ChainFinish(i) ==
  /\ inv[i].pc = "dispose"
  /\ IsChain(inv[i])
  /\ \E t \in Now :
       LET rec == inv[i]
       IN /\ heap' = SetCompleted(PushLog(heap, rec.session, ChainEntry(rec.results, t)),
                                  rec.session)
          /\ owner' = [owner EXCEPT ![rec.session] = Append(@, [inv |-> i, step |-> 0])]
          /\ clock' = t
          /\ inv' = [inv EXCEPT ![i] =
                       [rec EXCEPT !.pc = "done", !.ctx = "disposed",
                                   !.ret = [sessionId |-> rec.sessionId,
                                            results |-> rec.results]]]
  /\ UNCHANGED <<sessionStore, net, query, disk, probe>>

\* single mode: the response arrives
SingleResponds(i) ==
  /\ inv[i].pc = "fetch"
  /\ ~IsChain(inv[i])
  /\ \E resp \in Responses :
       LET rec == inv[i]
           r == ReadResponse(resp)
           expect == rec.input.expect
           v == Validate(IF expect = Undefined THEN NoExpect ELSE expect,
                         r.status, r.contentType, r.body)
       IN \E t \in (IF v.throws THEN {clock} ELSE Now) :
            /\ heap' = IF v.throws THEN heap
                       ELSE PushLog(heap, rec.session,
                                    RequestEntry("single", rec.req, r, expect, v, t))
            /\ owner' = IF v.throws THEN owner
                        ELSE [owner EXCEPT ![rec.session] =
                                Append(@, [inv |-> i, step |-> 1])]
            /\ clock' = t
            /\ inv' = [inv EXCEPT ![i] =
                         IF v.throws THEN Reject(rec, "validation")
                         ELSE [rec EXCEPT !.pc = "dispose", !.k = 1,
                                 !.results = <<SingleResult(r, v)>>]]
  /\ net' = net \ {[inv |-> i, step |-> 1]}
  /\ UNCHANGED <<sessionStore, query, disk, probe>>

\* single mode: context.dispose() has resolved
SingleFinish(i) ==
  /\ inv[i].pc = "dispose"
  /\ ~IsChain(inv[i])
  /\ inv' = [inv EXCEPT ![i] = [@ EXCEPT !.pc = "done", !.ctx = "disposed",
                                        !.ret = inv[i].results[1]]]
  /\ UNCHANGED <<sessionStore, heap, owner, clock, net, query, disk, probe>>

(***************************************************************************)
(* api_session_status and api_session_report                               *)
(***************************************************************************)
NotFound(sessionId) == [found |-> FALSE, text |-> "Session not found: ", id |-> sessionId]

\* SessionStatus with a get-or-create lookup: an unknown id gets a session
SessionStatusCreating(q) ==
  /\ query[q].pc = "idle"
  /\ \A p \in Queries : p < q => query[p].pc # "idle"
  /\ \E id \in SessionKeys :
       LET m == SessionManagement(sessionStore, heap, id, clock)
       IN /\ query' = [query EXCEPT ![q] =
                         [IdleQuery EXCEPT !.pc = "done", !.tool = "status",
                            !.sessionId = id, !.session = sessionStore[id],
                            !.result = IF sessionStore[id] = 0 THEN NotFound(id)
                                       ELSE [found |-> TRUE,
                                             session |-> heap[sessionStore[id]]]]]
          /\ sessionStore' = m.store
          /\ heap' = m.heap
          /\ owner' = IF Len(m.heap) > Len(heap) THEN Append(owner, <<>>) ELSE owner
  /\ UNCHANGED <<clock, inv, net, disk, probe>>

\* api_session_status: the session serialised, or not found
SessionStatus(q) ==
  /\ query[q].pc = "idle"
  /\ \A p \in Queries : p < q => query[p].pc # "idle"
  /\ \E id \in SessionKeys :
       query' = [query EXCEPT ![q] =
                   [IdleQuery EXCEPT !.pc = "done", !.tool = "status", !.sessionId = id,
                      !.session = sessionStore[id],
                      !.result = IF sessionStore[id] = 0 THEN NotFound(id)
                                 ELSE [found |-> TRUE, session |-> heap[sessionStore[id]]]]]
  /\ UNCHANGED <<sessionStore, heap, owner, clock, inv, net, disk, probe>>

ReportPath(sessionId) == <<"reports", sessionId>>

\* obj.f is present (and, for the objects and strings the handler logs, truthy)
HasField(obj, f) == f \in DOMAIN obj

RECURSIVE FlatSteps(_)
\* logs.filter(log => log.type === 'chain' && log.steps).flatMap(log => log.steps || [])
FlatSteps(logs) ==
  IF logs = <<>> THEN <<>>
  ELSE (IF logs[1].type = "chain" /\ HasField(logs[1], "steps") THEN logs[1].steps ELSE <<>>)
       \o FlatSteps(Tail(logs))

\* logs.filter(log => (log.type === 'single' || log.type === 'request') &&
\*                    log.request && log.response)
LoggedRequests(logs) ==
  SelectSeq(logs, LAMBDA log : /\ log.type \in {"single", "request"}
                               /\ HasField(log, "request")
                               /\ HasField(log, "response"))

\* isValid of generateSummary
IsValid(e) ==
  /\ HasField(e, "validation")
  /\ HasField(e, "bodyValidation")
  /\ e.validation.status
  /\ e.validation.contentType
  /\ e.bodyValidation.matched

\* Math.round(a / b) for b > 0
RoundDiv(a, b) == (2 * a + b) \div (2 * b)

\* the two loops of generateSummary over the chain steps counted and the
\* single requests; the two rates are in hundredths
Summarise(logs, counted, singleRequests) ==
  LET chainStepCount == Len(counted)
      singleRequestCount == Len(singleRequests)
      totalRequests == chainStepCount + singleRequestCount
      successfulRequests == Len(SelectSeq(counted, IsValid))
                            + Len(SelectSeq(singleRequests, IsValid))
      failedRequests == totalRequests - successfulRequests
  IN [totalRequests |-> totalRequests,
      successfulRequests |-> successfulRequests,
      failedRequests |-> failedRequests,
      successRate |-> IF totalRequests > 0
                      THEN RoundDiv(successfulRequests * 100, totalRequests) ELSE 0,
      validationsPassed |-> successfulRequests,
      validationsFailed |-> failedRequests,
      validationRate |-> IF totalRequests > 0
                         THEN RoundDiv(successfulRequests * 100, totalRequests) ELSE 0,
      logEntries |-> Len(logs),
      chainSteps |-> chainStepCount,
      singleRequests |-> singleRequestCount]

\* generateSummary counting every step of a 'chain' entry
generateSummaryEveryStep(logs) == Summarise(logs, FlatSteps(logs), LoggedRequests(logs))

\* a chain step is counted when it has a request and a response
generateSummary(logs) ==
  Summarise(logs,
            SelectSeq(FlatSteps(logs),
                      LAMBDA step : HasField(step, "request") /\ HasField(step, "response")),
            LoggedRequests(logs))

RECURSIVE InsertByTime(_, _)
\* x placed after the items of the sorted sequence that are not later than x
InsertByTime(sorted, x) ==
  IF sorted = <<>> THEN <<x>>
  ELSE IF sorted[1].timestamp <= x.timestamp
       THEN <<sorted[1]>> \o InsertByTime(Tail(sorted), x)
       ELSE <<x>> \o sorted

RECURSIVE SortByTime(_)
\* allRequests.sort((a, b) => time(a) - time(b)), a stable sort
SortByTime(seq) ==
  IF seq = <<>> THEN <<>>
  ELSE InsertByTime(SortByTime(SubSeq(seq, 1, Len(seq) - 1)), seq[Len(seq)])

RECURSIVE SumSeq(_)
\* intervals.reduce((a, b) => a + b)
SumSeq(seq) == IF seq = <<>> THEN 0 ELSE seq[1] + SumSeq(Tail(seq))

\* the timed requests of generateTimingData, sorted
AllRequests(logs) ==
  LET chainSteps ==
        SelectSeq(FlatSteps(logs),
                  LAMBDA step : /\ HasField(step, "timestamp")
                                /\ HasField(step, "method")
                                /\ HasField(step, "url")
                                /\ HasField(step, "status")
                                /\ step.status # 0)
      singles == LoggedRequests(logs)
      singleRequests ==
        [j \in 1..Len(singles) |->
           [timestamp |-> singles[j].timestamp, method |-> singles[j].request.method,
            url |-> singles[j].request.url, status |-> singles[j].response.status]]
  IN SortByTime(chainSteps \o singleRequests)

\* the result of generateTimingData for the sorted requests and a duration
Timing(allRequests, startTime, sessionDuration) ==
  LET timings ==
        [j \in 1..Len(allRequests) |->
           [index |-> j - 1, timestamp |-> allRequests[j].timestamp,
            relativeTimeMs |-> allRequests[j].timestamp - startTime,
            method |-> allRequests[j].method, url |-> allRequests[j].url,
            status |-> allRequests[j].status]]
      intervals ==
        [j \in 1..Len(timings) |->
           IF j = 1 THEN 0 ELSE timings[j].relativeTimeMs - timings[j - 1].relativeTimeMs]
  IN [sessionDurationMs |-> sessionDuration,
      requestCount |-> Len(allRequests),
      averageIntervalMs |-> IF Len(intervals) > 1
                            THEN RoundDiv(SumSeq(intervals), Len(intervals) - 1) ELSE 0,
      timings |-> timings]

\* generateTimingData with the duration counted from the session's start
generateTimingDataFromStart(logs, session) ==
  LET allRequests == AllRequests(logs)
  IN IF allRequests = <<>> THEN Null
     ELSE Timing(allRequests, session.startTime,
                 allRequests[Len(allRequests)].timestamp - session.startTime)

\* timestamps are milliseconds: toISOString() and new Date(...).getTime()
\* are inverse on them
generateTimingData(logs, session) ==
  LET allRequests == AllRequests(logs)
  IN IF allRequests = <<>> THEN Null
     ELSE Timing(allRequests, session.startTime,
                 allRequests[Len(allRequests)].timestamp - allRequests[1].timestamp)

\* method.toLowerCase()
ToLowerCase(str) ==
  LET UpperChars == <<"A", "B", "C", "D", "E", "F", "G", "H", "I", "J", "K", "L", "M",
                      "N", "O", "P", "Q", "R", "S", "T", "U", "V", "W", "X", "Y", "Z">>
      LowerChars == <<"a", "b", "c", "d", "e", "f", "g", "h", "i", "j", "k", "l", "m",
                      "n", "o", "p", "q", "r", "s", "t", "u", "v", "w", "x", "y", "z">>
  IN [j \in 1..Len(str) |->
        IF \E u \in 1..Len(UpperChars) : UpperChars[u] = str[j]
        THEN LowerChars[CHOOSE u \in 1..Len(UpperChars) : UpperChars[u] = str[j]]
        ELSE str[j]]

\* the map of escapeHtml
EscapeChar(c) ==
  CASE c = "&" -> <<"&", "a", "m", "p", ";">>
    [] c = "<" -> <<"&", "l", "t", ";">>
    [] c = ">" -> <<"&", "g", "t", ";">>
    [] c = "\"" -> <<"&", "q", "u", "o", "t", ";">>
    [] c = "'" -> <<"&", "#", "0", "3", "9", ";">>
    [] OTHER -> <<c>>

RECURSIVE EscapeChars(_)
\* text.replace(/[&<>"']/g, m => map[m])
EscapeChars(str) ==
  IF str = <<>> THEN <<>> ELSE EscapeChar(str[1]) \o EscapeChars(Tail(str))

\* escapeHtml(text) for a JavaScript value: String(text) of a non-string
escapeHtml(text) == IF text.t # "str" THEN ToStr(text) ELSE EscapeChars(text.s)

RECURSIVE Blanks(_)
Blanks(n) == IF n = 0 THEN <<>> ELSE <<" ">> \o Blanks(n - 1)

\* the members JSON.stringify writes: not those of value undefined or function
Written(o) == SelectSeq(o, LAMBDA e : e[2].t \notin {"undefined", "fn"})

RECURSIVE PrettyText(_, _)
RECURSIVE PrettyMembers(_, _)
RECURSIVE PrettyElements(_, _)
PrettyMembers(o, n) ==
  Blanks(n) \o <<"\"">> \o Quote(o[1][1]) \o <<"\"", ":", " ">> \o PrettyText(o[1][2], n)
  \o (IF Len(o) > 1 THEN <<",", "\n">> \o PrettyMembers(Tail(o), n) ELSE <<>>)

PrettyElements(a, n) ==
  Blanks(n) \o PrettyText(a[1], n)
  \o (IF Len(a) > 1 THEN <<",", "\n">> \o PrettyElements(Tail(a), n) ELSE <<>>)

\* the text of JSON.stringify(v, null, 2) at indentation n
PrettyText(v, n) ==
  CASE v.t = "obj" ->
         IF Written(v.o) = <<>> THEN <<"{", "}">>
         ELSE <<"{", "\n">> \o PrettyMembers(Written(v.o), n + 2) \o <<"\n">> \o Blanks(n)
              \o <<"}">>
    [] v.t = "arr" ->
         IF v.a = <<>> THEN <<"[", "]">>
         ELSE <<"[", "\n">> \o PrettyElements(v.a, n + 2) \o <<"\n">> \o Blanks(n) \o <<"]">>
    [] OTHER -> JsonText(v)

\* JSON.stringify(v, null, 2)
StringifyPretty(v) ==
  IF v.t \in {"undefined", "fn"} THEN Undefined ELSE Str(PrettyText(v, 0))

Unknown == <<"U", "N", "K", "N", "O", "W", "N">>

\* processLogForReport(log, true, true) for a 'request' or 'single' entry;
\* the 'chain' entry keeps its type and timestamp (its steps are not displayed)
processLogForReport(log) ==
  IF log.type = "chain" THEN [type |-> log.type, timestamp |-> log.timestamp]
  ELSE [type |-> log.type, timestamp |-> log.timestamp,
        request |->
          [method |-> IF log.request.method # <<>> THEN log.request.method ELSE Unknown,
           url |-> IF log.request.url # <<>> THEN log.request.url ELSE Unknown,
           headers |-> IF Truthy(log.request.headers) THEN log.request.headers
                       ELSE Obj(<<>>),
           data |-> IF Truthy(log.request.data) THEN log.request.data ELSE Null],
        response |->
          [status |-> log.response.status,
           statusText |-> IF log.response.statusText # <<>> THEN log.response.statusText
                          ELSE Unknown,
           contentType |-> IF log.response.contentType # <<>> THEN log.response.contentType
                           ELSE Unknown,
           headers |-> Obj(<<>>),
           body |-> IF Truthy(log.response.body) THEN log.response.body ELSE Null],
        validation |-> log.validation,
        bodyValidation |-> log.bodyValidation,
        expectations |-> IF log.expectations = Undefined THEN NoExpect
                         ELSE log.expectations]

\* a piece of the document: the text interpolated for a field
Piece(field, text) == [field |-> field, text |-> text]

\* the markup that opens one element of the template
Markup(class) == [field |-> "markup", text |-> <<class>>]

\* a piece when cond holds
When(cond, pieces) == IF cond THEN pieces ELSE <<>>

\* escapeHtml(typeof body === 'string' ? body : JSON.stringify(body, null, 2))
EscapedDump(v) == escapeHtml(IF v.t = "str" THEN v ELSE StringifyPretty(v))

\* the headers object of a logged request as a JavaScript value: its values
\* are strings
HeadersValue(headers) ==
  Obj([j \in 1..Len(headers.o) |-> <<headers.o[j][1], Str(headers.o[j][2])>>])

\* generateRequestResponseHtml(log): log has a request and a response
generateRequestResponseHtml(log) ==
  <<Markup("request-section"),
    Piece("method", log.request.method),
    Piece("url", escapeHtml(Str(log.request.url)))>>
  \o When(log.request.headers.o # <<>>,
          <<Piece("requestHeaders",
                  escapeHtml(StringifyPretty(HeadersValue(log.request.headers))))>>)
  \o When(Truthy(log.request.data),
          <<Piece("requestData", escapeHtml(StringifyPretty(log.request.data)))>>)
  \o <<Markup("response-section"),
       Piece("statusCode", IF log.response.status # 0 THEN NumToStr(log.response.status)
                           ELSE Unknown),
       Piece("statusText", log.response.statusText),
       Piece("contentType", log.response.contentType),
       Piece("responseBody", EscapedDump(log.response.body))>>

\* generateValidationHtml(validation, bodyValidation, expectations, response);
\* the reason is one of the validator's constant texts, written as one token
generateValidationHtml(validation, bodyValidation, expectations, response) ==
  <<Markup(IF validation.status /\ validation.contentType /\ bodyValidation.matched
           THEN "validation-passed" ELSE "validation-failed"),
    Piece("expectedStatus", IF expectations.status # Undefined
                            THEN ToStr(expectations.status) ELSE <<"A", "n", "y">>),
    Piece("statusCode", IF response.status # 0 THEN NumToStr(response.status)
                        ELSE <<"U", "n", "k", "n", "o", "w", "n">>),
    Piece("expectedContentType", IF Truthy(expectations.contentType)
                                 THEN expectations.contentType.s ELSE <<"A", "n", "y">>),
    Piece("contentType", response.contentType)>>
  \o When(expectations.body # Undefined,
          <<Piece("expectedBody", EscapedDump(expectations.body)),
            Piece("responseBody", EscapedDump(response.body))>>)
  \o When(Truthy(expectations.bodyRegex),
          <<Piece("bodyRegex", escapeHtml(expectations.bodyRegex))>>)
  \o <<Piece("reason", <<bodyValidation.reason>>)>>

\* the template of generateLogEntry for a processed 'request' or 'single'
\* entry, whose validation objects are always present
LogEntry(log) ==
  <<Markup("log-entry"),
    Piece("method", ToLowerCase(log.request.method)),
    Piece("method", log.request.method),
    Piece("url", escapeHtml(Str(log.request.url)))>>
  \o When(log.response.status > 0,
          <<Piece("statusCode", NumToStr(log.response.status)),
            Piece("statusText", log.response.statusText)>>)
  \o generateRequestResponseHtml(log)
  \o generateValidationHtml(log.validation, log.bodyValidation, log.expectations,
                            log.response)

\* generateLogEntry opening an entry for the 'chain' entry as well
generateLogEntryChainToo(log) ==
  IF log.type = "chain" THEN <<Markup("log-entry")>> ELSE LogEntry(log)

\* generateLogEntry(log, index) for a processed log: nothing for a 'chain'
\* entry
generateLogEntry(log) == IF log.type = "chain" THEN <<>> ELSE LogEntry(log)

RECURSIVE Flatten(_)
\* pieces.join('')
Flatten(seqs) == IF seqs = <<>> THEN <<>> ELSE seqs[1] \o Flatten(Tail(seqs))

\* generateTimingSection(timing): the timeline
generateTimingSection(timing) ==
  Flatten([j \in 1..Len(timing.timings) |->
             <<Markup("timing"),
               Piece("method", timing.timings[j].method),
               Piece("url", escapeHtml(Str(timing.timings[j].url))),
               Piece("statusCode", NumToStr(timing.timings[j].status))>>])

\* generateReportData(session, true, true, true): the session fields of the
\* header, the summary, the processed logs and the timing
generateReportData(session) ==
  [session |-> [sessionId |-> session.sessionId, status |-> session.status,
                startTime |-> session.startTime],
   summary |-> generateSummary(session.logs),
   logs |-> [j \in 1..Len(session.logs) |-> processLogForReport(session.logs[j])],
   timing |-> generateTimingData(session.logs, session)]

\* the template of renderHtmlReport: header, timing section, and the log
\* entries joined
Document(reportData, entries) ==
  <<Markup("header"),
    Piece("sessionId", escapeHtml(Str(reportData.session.sessionId))),
    Piece("sessionStatus", <<reportData.session.status>>),
    Piece("sessionStatus", <<reportData.session.status>>)>>
  \o When(reportData.timing # Null, generateTimingSection(reportData.timing))
  \o Flatten(entries)

\* the document rendered from a session: the report data it displays and
\* the pieces of text of the document
renderHtmlReport(session) ==
  LET reportData == generateReportData(session)
  IN [sessionId |-> reportData.session.sessionId, status |-> reportData.session.status,
      summary |-> reportData.summary, timing |-> reportData.timing,
      html |-> Document(reportData,
                        [j \in 1..Len(reportData.logs) |->
                           generateLogEntry(reportData.logs[j])])]

\* ReportCall with the reports directory ensured before the lookup
ReportCallMkdirFirst(q) ==
  /\ query[q].pc = "idle"
  /\ \A p \in Queries : p < q => query[p].pc # "idle"
  /\ \E id \in SessionKeys :
       query' = [query EXCEPT ![q] =
                   IF sessionStore[id] = 0
                   THEN [IdleQuery EXCEPT !.pc = "done", !.tool = "report",
                           !.sessionId = id, !.result = NotFound(id)]
                   ELSE [IdleQuery EXCEPT !.pc = "mkdir", !.tool = "report",
                           !.sessionId = id, !.session = sessionStore[id]]]
  /\ disk' = [disk EXCEPT !.dir = TRUE]
  /\ UNCHANGED <<sessionStore, heap, owner, clock, inv, net, probe>>

\* api_session_report is called: not found, or ensureReportsDir() is awaited
ReportCall(q) ==
  /\ query[q].pc = "idle"
  /\ \A p \in Queries : p < q => query[p].pc # "idle"
  /\ \E id \in SessionKeys :
       query' = [query EXCEPT ![q] =
                   IF sessionStore[id] = 0
                   THEN [IdleQuery EXCEPT !.pc = "done", !.tool = "report",
                           !.sessionId = id, !.result = NotFound(id)]
                   ELSE [IdleQuery EXCEPT !.pc = "mkdir", !.tool = "report",
                           !.sessionId = id, !.session = sessionStore[id]]]
  /\ UNCHANGED <<sessionStore, heap, owner, clock, inv, net, disk, probe>>

\* ReportRender marking the reported session completed
ReportRenderCompleting(q) ==
  /\ query[q].pc = "mkdir"
  /\ query' = [query EXCEPT ![q] = [@ EXCEPT !.pc = "write",
                                      !.result = renderHtmlReport(heap[query[q].session])]]
  /\ heap' = [heap EXCEPT ![query[q].session].status = "completed"]
  /\ disk' = [disk EXCEPT !.dir = TRUE]
  /\ UNCHANGED <<sessionStore, owner, clock, inv, net, probe>>

\* ensureReportsDir() has resolved: the report is rendered, writeFile awaited
ReportRender(q) ==
  /\ query[q].pc = "mkdir"
  /\ query' = [query EXCEPT ![q] = [@ EXCEPT !.pc = "write",
                                      !.result = renderHtmlReport(heap[query[q].session])]]
  /\ disk' = [disk EXCEPT !.dir = TRUE]
  /\ UNCHANGED <<sessionStore, heap, owner, clock, inv, net, probe>>

\* fs.writeFile() has resolved
ReportWritten(q) ==
  /\ query[q].pc = "write"
  /\ disk' = [disk EXCEPT !.files =
                {f \in @ : f.path # ReportPath(query[q].sessionId)}
                \cup {[path |-> ReportPath(query[q].sessionId), html |-> query[q].result]}]
  /\ query' = [query EXCEPT ![q] =
                 [@ EXCEPT !.pc = "done",
                    !.result = [found |-> TRUE, text |-> "HTML report generated: ",
                                path |-> ReportPath(query[q].sessionId)]]]
  /\ UNCHANGED <<sessionStore, heap, owner, clock, inv, net, probe>>

(***************************************************************************)
(* The response processing applied to one given input                     *)
(***************************************************************************)
\* the validation block (the same text in chain and single mode) applied to
\* the expectation and the response of the probe
ProbeValidate ==
  /\ probe.pc = "call"
  /\ probe.fn = "validate"
  /\ LET r == ReadResponse(probe.resp)
     IN probe' = [probe EXCEPT !.pc = "ret",
                    !.out = Validate(probe.expect, r.status, r.contentType, r.body)]
  /\ UNCHANGED <<sessionStore, heap, owner, clock, inv, net, query, disk>>

\* the body of the chain loop, from the response on, applied to the step,
\* the response and the scope of the probe
ProbeStep ==
  /\ probe.pc = "call"
  /\ probe.fn = "step"
  /\ probe' = [probe EXCEPT !.pc = "ret",
                 !.out = StepBlock(probe.step, RenderRequest(probe.step, probe.stepVars),
                                   probe.resp, probe.stepVars, clock)]
  /\ UNCHANGED <<sessionStore, heap, owner, clock, inv, net, query, disk>>

\* renderTemplate applied to the text and the scope of the probe
ProbeRender ==
  /\ probe.pc = "call"
  /\ probe.fn = "render"
  /\ probe' = [probe EXCEPT !.pc = "ret",
                 !.out = IF renderThrows(probe.str, probe.vars)
                         THEN [throws |-> TRUE]
                         ELSE [throws |-> FALSE,
                               text |-> renderTemplate(probe.str, probe.vars)]]
  /\ UNCHANGED <<sessionStore, heap, owner, clock, inv, net, query, disk>>

\* extractFields applied to the value and the descriptor of the probe;
\* Object.entries(extract || {}) is empty for an absent descriptor
ProbeExtract ==
  /\ probe.pc = "call"
  /\ probe.fn = "extract"
  /\ probe' = [probe EXCEPT !.pc = "ret",
                 !.out = Obj(extractFields(probe.obj,
                                           IF Truthy(probe.extract) THEN probe.extract.o
                                           ELSE <<>>))]
  /\ UNCHANGED <<sessionStore, heap, owner, clock, inv, net, query, disk>>

\* one turn of the loop of chain mode on the chain of the probe: the step is
\* rendered against the scope, answered by the probe's answer to it,
\* validated, extracted from and logged; a throw ends the loop
ProbeChain ==
  /\ probe.pc = "call"
  /\ probe.fn = "chain"
  /\ LET step == ChainStep(probe.input, probe.k + 1)
         b == StepBlock(step, RenderRequest(step, probe.stepVars),
                        probe.resps[probe.k + 1], probe.stepVars, clock)
     IN probe' =
          IF b.throws THEN [probe EXCEPT !.pc = "ret", !.out = [throws |-> TRUE]]
          ELSE [probe EXCEPT
                  !.k = @ + 1, !.stepVars = b.stepVars,
                  !.results = Append(@, b.result), !.entries = Append(@, b.entry),
                  !.pc = IF probe.k + 1 < Len(probe.input.chain.a) THEN "call" ELSE "ret",
                  !.out = IF probe.k + 1 < Len(probe.input.chain.a) THEN Undefined
                          ELSE [throws |-> FALSE,
                                results |-> Append(probe.results, b.result)]]
  /\ UNCHANGED <<sessionStore, heap, owner, clock, inv, net, query, disk>>

\* the session a single-mode call of the handler leaves for an input and
\* its answer
SessionOf(input, resp) ==
  LET r == ReadResponse(resp)
      v == Validate(IF input.expect = Undefined THEN NoExpect ELSE input.expect,
                    r.status, r.contentType, r.body)
  IN [NewSession(input.sessionId.s, 0) EXCEPT
        !.logs = <<[type |-> "single",
                    request |-> [method |-> input.method, url |-> input.url.s,
                                 headers |-> input.headers, data |-> input.data],
                    response |-> [status |-> r.status, statusText |-> r.statusText,
                                  contentType |-> r.contentType, body |-> r.body],
                    expectations |-> input.expect, validation |-> v.validation,
                    bodyValidation |-> v.bodyValidation, timestamp |-> 0]>>]

\* renderHtmlReport applied to the session of the probe
ProbeReport ==
  /\ probe.pc = "call"
  /\ probe.fn = "report"
  /\ probe' = [probe EXCEPT !.pc = "ret",
                 !.out = renderHtmlReport(SessionOf(probe.input, probe.resp)).html]
  /\ UNCHANGED <<sessionStore, heap, owner, clock, inv, net, query, disk>>

(***************************************************************************)
(* Specifications                                                          *)
(***************************************************************************)
\* MaxInv api_request calls, interleaved at their awaits
Next ==
  \/ \E i \in Invs : Start(i)
  \/ \E i \in Invs : ContextReady(i)
  \/ \E i \in Invs : TransportThrows(i)
  \/ \E i \in Invs : ChainResponds(i)
  \/ \E i \in Invs : ChainFinish(i)
  \/ \E i \in Invs : SingleResponds(i)
  \/ \E i \in Invs : SingleFinish(i)

Spec == Init /\ [][Next]_vars

\* one api_request call, interleaved with MaxQuery calls of the query tools
NextTools ==
  \/ Start(1)
  \/ ContextReady(1)
  \/ TransportThrows(1)
  \/ ChainResponds(1)
  \/ ChainFinish(1)
  \/ SingleResponds(1)
  \/ SingleFinish(1)
  \/ \E q \in Queries : SessionStatus(q)
  \/ \E q \in Queries : ReportCall(q)
  \/ \E q \in Queries : ReportRender(q)
  \/ \E q \in Queries : ReportWritten(q)

SpecTools == Init /\ [][NextTools]_vars

\* invocation i has returned or rejected
Ended(i) == inv[i].pc \in {"done", "failed"}

\* MaxInv api_request calls one after the other, and one api_session_report
\* call at any time
NextReport ==
  \/ \E i \in Invs : (\A j \in Invs : j < i => Ended(j)) /\ Start(i)
  \/ \E i \in Invs : ContextReady(i)
  \/ \E i \in Invs : TransportThrows(i)
  \/ \E i \in Invs : ChainResponds(i)
  \/ \E i \in Invs : ChainFinish(i)
  \/ \E i \in Invs : SingleResponds(i)
  \/ \E i \in Invs : SingleFinish(i)
  \/ ReportCall(1)
  \/ ReportRender(1)
  \/ ReportWritten(1)

SpecReport == Init /\ [][NextReport]_vars

\* the response processing of one request, the template engine and the
\* field extractor, each applied once to every input of Probes
InitProbe ==
  /\ sessionStore = [id \in SessionKeys |-> 0]
  /\ heap = <<>>
  /\ owner = <<>>
  /\ clock = 0
  /\ inv = [i \in Invs |-> IdleInv]
  /\ net = {}
  /\ query = [q \in Queries |-> IdleQuery]
  /\ disk = [dir |-> FALSE, files |-> {}]
  /\ probe \in Probes

NextProbe ==
  \/ ProbeValidate
  \/ ProbeStep
  \/ ProbeRender
  \/ ProbeExtract
  \/ ProbeReport
  \/ ProbeChain

SpecProbe == InitProbe /\ [][NextProbe]_vars

(***************************************************************************)
(* Properties                                                              *)
(***************************************************************************)
Started(i) == inv[i].pc # "idle"

\* the tags of the log entries invocation i pushed to its session, in log order
OwnTags(i) == SelectSeq(owner[inv[i].session], LAMBDA g : g.inv = i)

\* the log entries invocation i pushed to its session, in log order
OwnEntries(i) ==
  LET r == inv[i].session
      at == SelectSeq([j \in 1..Len(owner[r]) |-> j], LAMBDA j : owner[r][j].inv = i)
  IN [n \in 1..Len(at) |-> heap[r].logs[at[n]]]

\* the tags of the 'request' entries of steps 1..n of invocation i
StepTags(i, n) == [s \in 1..n |-> [inv |-> i, step |-> s]]

TransportFailed(i) ==
  Started(i) /\ IsChain(inv[i]) /\ inv[i].threw

\* C1: when the transport call of step k+1 of a chain throws, the invocation
\* ends with that error, no later step is attempted (k+1 transport calls were
\* issued and none is in flight), and the invocation's log entries are
\* exactly the k 'request' entries of the steps before it, with no 'chain'
\* entry.
C1_TransportErrorAbortsChain ==
  \A i \in Invs :
    TransportFailed(i) =>
      /\ inv[i].pc = "failed"
      /\ inv[i].ret = [error |-> "transport"]
      /\ inv[i].calls = inv[i].k + 1
      /\ ~\E f \in net : f.inv = i
      /\ OwnTags(i) = StepTags(i, inv[i].k)
      /\ \A e \in 1..Len(OwnEntries(i)) : OwnEntries(i)[e].type = "request"

\* a two-step chain whose first step was logged and whose second transport
\* call threw
C1_Witness ==
  \E i \in Invs :
    /\ TransportFailed(i)
    /\ Len(inv[i].input.chain.a) = 2
    /\ inv[i].k = 1
    /\ Len(OwnEntries(i)) = 1

ChainDone(i) == Started(i) /\ IsChain(inv[i]) /\ inv[i].pc = "done"

\* C2: a chain of N steps that ran to completion pushed exactly N+1 log
\* entries: the 'request' entries of steps 1..N in step order, then one
\* 'chain' entry whose steps are the N step results in step order.
C2_ChainAppendsNPlusOne ==
  \A i \in Invs :
    ChainDone(i) =>
      LET N == Len(inv[i].input.chain.a)
          own == OwnEntries(i)
      IN /\ Len(own) = N + 1
         /\ OwnTags(i) = Append(StepTags(i, N), [inv |-> i, step |-> 0])
         /\ \A s \in 1..N : own[s].type = "request"
         /\ own[N + 1].type = "chain"
         /\ Len(own[N + 1].steps) = N
         /\ \A s \in 1..N :
              /\ own[N + 1].steps[s].name = inv[i].input.chain.a[s].name
              /\ own[N + 1].steps[s].status = own[s].response.status
              /\ own[N + 1].steps[s].body = own[s].response.body
              /\ own[N + 1].steps[s].bodyValidation = own[s].bodyValidation

\* two completed chains on one session, one of two steps, their entries
\* interleaved in the log
C2_Witness ==
  \E i, j \in Invs :
    /\ i # j
    /\ ChainDone(i) /\ ChainDone(j)
    /\ inv[i].session = inv[j].session
    /\ Len(inv[i].input.chain.a) = 2
    /\ \E a, b \in 1..Len(owner[inv[i].session]) :
         /\ a < b
         /\ owner[inv[i].session][a].inv = j
         /\ owner[inv[i].session][b] = [inv |-> i, step |-> 1]

IsPrefix(a, b) == Len(a) <= Len(b) /\ SubSeq(b, 1, Len(a)) = a

\* the logs of the session stored under id
LogsOf(store, hp, id) == hp[store[id]].logs

\* C3: the logs of every session are append-only: in every step, each
\* session of the store is still in the store and its previous logs are a
\* prefix of its logs.
C3_LogsAppendOnly ==
  [][\A id \in SessionKeys :
       sessionStore[id] # 0 =>
         /\ sessionStore'[id] # 0
         /\ IsPrefix(LogsOf(sessionStore, heap, id), LogsOf(sessionStore', heap', id))]_vars

\* a session whose logs grew by pushes of two invocations, twice after its
\* first entry
C3_Witness ==
  \E id \in SessionKeys :
    /\ sessionStore[id] # 0
    /\ Len(LogsOf(sessionStore, heap, id)) >= 3
    /\ \E a, b \in 1..Len(owner[sessionStore[id]]) :
         owner[sessionStore[id]][a].inv # owner[sessionStore[id]][b].inv

\* C4: in every session the timestamps of the log entries are
\* non-decreasing in log order.
C4_TimestampsNonDecreasing ==
  \A r \in 1..Len(heap) :
    \A a, b \in 1..Len(heap[r].logs) :
      a < b => heap[r].logs[a].timestamp <= heap[r].logs[b].timestamp

\* a session with the entries of two interleaved invocations, a 'chain'
\* entry that is not the last entry, and the clock advanced in between
C4_Witness ==
  \E r \in 1..Len(heap) :
    \E a, b \in 1..Len(heap[r].logs) :
      /\ a < b
      /\ heap[r].logs[a].type = "chain"
      /\ owner[r][a].inv # owner[r][b].inv
      /\ heap[r].logs[1].timestamp < heap[r].logs[b].timestamp

\* C5: the steps of a chain run strictly sequentially: an invocation has at
\* most one transport call in flight; while the call of step k+1 is in
\* flight, the responses of steps 1..k were received (k step results), their
\* variables and result bundles are in the scope the request was rendered
\* against, and their 'request' entries are in the session's logs.
C5_StepsSequential ==
  \A f \in net :
    LET rec == inv[f.inv]
    IN /\ rec.pc = "fetch"
       /\ f.step = rec.k + 1
       /\ \A g \in net : g.inv = f.inv => g = f
       /\ IsChain(rec) =>
            /\ Len(rec.results) = rec.k
            /\ OwnTags(f.inv) = StepTags(f.inv, rec.k)
            /\ rec.req = RenderRequest(rec.input.chain.a[rec.k + 1], rec.stepVars)
            /\ \A s \in 1..rec.k :
                 LET step == rec.input.chain.a[s]
                 IN /\ HasKey(rec.stepVars, step.name)
                    /\ step.extract # Undefined =>
                         \A x \in 1..Len(step.extract.o) :
                           HasKey(rec.stepVars, step.extract.o[x][1])

\* the second step of a chain in flight, its url rendered with the token the
\* first step extracted
C5_Witness ==
  \E f \in net :
    /\ f.step = 2
    /\ IsChain(inv[f.inv])
    /\ inv[f.inv].req.url = <<"/", "u", "/", "a", "b">>
    /\ Lookup(inv[f.inv].req.headers.o, <<"A">>) = <<"B", " ", "a", "b">>

\* the log entries invocation i owes to session object r: one per completed
\* request, and one more for a completed chain
Completed(i, r) ==
  IF Started(i) /\ inv[i].session = r
  THEN inv[i].k + (IF ChainDone(i) THEN 1 ELSE 0)
  ELSE 0

RECURSIVE SumCompleted(_, _)
SumCompleted(n, r) == IF n = 0 THEN 0 ELSE Completed(n, r) + SumCompleted(n - 1, r)

\* C6: no update is lost between interleaved invocations: every invocation
\* works on the one record the store holds under its sessionId, every
\* session's logs hold exactly one entry per completed request and one per
\* completed chain, and the 'request' entries of a chain are in step order.
C6_NoLostUpdate ==
  /\ \A i \in Invs :
       Started(i) =>
         /\ inv[i].session = sessionStore[inv[i].sessionId]
         /\ heap[inv[i].session].sessionId = inv[i].sessionId
         /\ SelectSeq(OwnTags(i), LAMBDA g : g.step # 0) = StepTags(i, inv[i].k)
  /\ \A r \in 1..Len(heap) : Len(heap[r].logs) = SumCompleted(MaxInv, r)

\* two invocations on one session, both chains run to completion, the
\* entries of one lying between the entries of the other
C6_Witness ==
  \E i, j \in Invs :
    /\ i # j
    /\ ChainDone(i) /\ ChainDone(j)
    /\ inv[i].session = inv[j].session
    /\ \E a, b, c \in 1..Len(owner[inv[i].session]) :
         /\ a < b /\ b < c
         /\ owner[inv[i].session][a].inv = i
         /\ owner[inv[i].session][b].inv = j
         /\ owner[inv[i].session][c].inv = i

UrlError == [error |-> "URL is required for single request mode"]

\* invocation i was a single-mode call without url
UrlFailed(i) == inv[i].pc = "failed" /\ inv[i].ret = UrlError

\* C7 as stated: a single-mode call without url fails and leaves the session
\* store as it was: the same sessions, logs and statuses.
C7_NoSessionMutation ==
  [][\A i \in Invs :
       (inv[i].pc = "idle" /\ inv'[i].pc = "failed" /\ inv'[i].ret = UrlError) =>
         /\ sessionStore' = sessionStore
         /\ heap' = heap]_vars

\* C7 amended: a single-mode call without url fails with the error before
\* any transport call, and leaves every existing session as it was (record,
\* logs, status); when its sessionId is new (or generated), the call has
\* created the session, with status 'running' and no logs, and nothing else.
C7_NoMutationButCreation ==
  [][\A i \in Invs :
       (inv[i].pc = "idle" /\ inv'[i].pc = "failed" /\ inv'[i].ret = UrlError) =>
         LET id == inv'[i].sessionId
         IN /\ inv'[i].calls = 0
            /\ \A r \in 1..Len(heap) : heap'[r] = heap[r]
            /\ \A other \in SessionKeys \ {id} : sessionStore'[other] = sessionStore[other]
            /\ IF sessionStore[id] # 0
               THEN sessionStore' = sessionStore /\ heap' = heap
               ELSE /\ Len(heap') = Len(heap) + 1
                    /\ sessionStore'[id] = Len(heap')
                    /\ heap'[Len(heap')].sessionId = id
                    /\ heap'[Len(heap')].status = "running"
                    /\ heap'[Len(heap')].logs = <<>>]_vars

\* a failed call without url whose generated sessionId now names a session
\* with no logs, next to a session another invocation has logged to
C7_Witness ==
  \E i, j \in Invs :
    /\ Started(i)
    /\ UrlFailed(i)
    /\ inv[i].sessionId = uuid(i)
    /\ sessionStore[uuid(i)] # 0
    /\ heap[sessionStore[uuid(i)]].logs = <<>>
    /\ Started(j)
    /\ j < i
    /\ Len(heap[inv[j].session].logs) > 0

ReportGenerated(q) ==
  /\ query[q].tool = "report"
  /\ query[q].pc = "done"
  /\ query[q].result = [found |-> TRUE, text |-> "HTML report generated: ",
                        path |-> ReportPath(query[q].sessionId)]

\* C8: after an api_request call with a new sessionId and neither url nor
\* chain, the session exists with status 'running' and no logs; an
\* api_session_report call made after it for that sessionId finds the
\* session and, once finished, has written the report of that session.
C8_FailedCallLeavesSession ==
  /\ [](UrlFailed(1) =>
          /\ sessionStore[inv[1].sessionId] # 0
          /\ heap[sessionStore[inv[1].sessionId]].sessionId = inv[1].sessionId
          /\ heap[sessionStore[inv[1].sessionId]].status = "running"
          /\ heap[sessionStore[inv[1].sessionId]].logs = <<>>)
  /\ [][\A q \in Queries :
          (/\ UrlFailed(1)
           /\ query[q].pc = "idle"
           /\ query'[q].tool = "report"
           /\ query'[q].sessionId = inv[1].sessionId) => query'[q].pc = "mkdir"]_vars
  /\ [](\A q \in Queries :
          (/\ UrlFailed(1)
           /\ query[q].tool = "report"
           /\ query[q].pc = "done"
           /\ query[q].sessionId = inv[1].sessionId
           /\ query[q].session # 0) =>
             /\ ReportGenerated(q)
             /\ \E f \in disk.files :
                  /\ f.path = ReportPath(inv[1].sessionId)
                  /\ f.html.sessionId = inv[1].sessionId
                  /\ f.html.status = "running"
                  /\ f.html.summary.logEntries = 0)

\* the report of session s1 was generated after the call that presented s1
\* without url had failed
C8_Witness ==
  \E q \in Queries :
    /\ UrlFailed(1)
    /\ inv[1].input.sessionId = Str(S1)
    /\ ReportGenerated(q)
    /\ query[q].sessionId = S1
    /\ Len(heap[sessionStore[S1]].logs) = 0

ValidationError == [error |-> "validation"]

\* C9: a validation failure is never raised as an error: no invocation ends
\* with an error thrown by the validation of a response.
C9_ValidationNeverThrows ==
  \A i \in Invs : Started(i) => inv[i].ret # ValidationError

\* C10: when a chain invocation has returned, its session's status is
\* 'completed' and its 'chain' entry is in the logs; and no session is
\* 'completed' without a 'chain' entry in its logs, so the entry is appended
\* no later than the status is set.
C10_CompletedAfterChainEntry ==
  /\ \A i \in Invs :
       ChainDone(i) =>
         /\ heap[inv[i].session].status = "completed"
         /\ \E e \in 1..Len(heap[inv[i].session].logs) :
              /\ heap[inv[i].session].logs[e].type = "chain"
              /\ owner[inv[i].session][e] = [inv |-> i, step |-> 0]
  /\ \A r \in 1..Len(heap) :
       heap[r].status = "completed" =>
         \E e \in 1..Len(heap[r].logs) : heap[r].logs[e].type = "chain"

\* a two-step chain has returned, its 'chain' entry the last of the logs of
\* a session now 'completed', while another invocation on the session is
\* still awaiting a response
C10_Witness ==
  \E i, j \in Invs :
    /\ ChainDone(i)
    /\ Len(inv[i].input.chain.a) = 2
    /\ heap[inv[i].session].status = "completed"
    /\ heap[inv[i].session].logs[Len(heap[inv[i].session].logs)].type = "chain"
    /\ j # i
    /\ inv[j].pc = "fetch"
    /\ inv[j].session = inv[i].session

\* only single-mode invocations have used session object r
SingleOnly(r) ==
  \A i \in Invs : (Started(i) /\ inv[i].session = r) => ~IsChain(inv[i])

SessionFields == {"sessionId", "startTime", "logs", "status"}

\* query q is a finished api_session_status call that found a session
StatusFound(q) ==
  query[q].tool = "status" /\ query[q].pc = "done" /\ query[q].session # 0

\* C11: a session that only single-mode requests have used has status
\* 'running', whatever their validation outcome; and api_session_status
\* reports such a session with exactly its sessionId, startTime, logs and
\* status: the status 'running', the sessionId asked for, the startTime of
\* the record and the logs the record had at the time of the call.
C11_SingleModeKeepsRunning ==
  /\ \A r \in 1..Len(heap) : SingleOnly(r) => heap[r].status = "running"
  /\ \A q \in Queries :
       StatusFound(q) =>
         LET reported == query[q].result.session
             now == heap[query[q].session]
         IN /\ query[q].result.found
            /\ DOMAIN reported = SessionFields
            /\ reported.sessionId = query[q].sessionId
            /\ reported.startTime = now.startTime
            /\ IsPrefix(reported.logs, now.logs)
            /\ SingleOnly(query[q].session) => reported.status = "running"

\* a single-mode request whose validation failed has returned, and two
\* api_session_status calls, one before and one after its log entry, have
\* both reported the session 'running'
C11_Witness ==
  /\ inv[1].pc = "done"
  /\ ~IsChain(inv[1])
  /\ ~inv[1].ret.ok
  /\ \E p, q \in Queries :
       /\ StatusFound(p) /\ StatusFound(q)
       /\ query[p].session = inv[1].session
       /\ query[q].session = inv[1].session
       /\ query[p].result.session.logs = <<>>
       /\ Len(query[q].result.session.logs) = 1
       /\ query[q].result.session.logs[1].type = "single"
       /\ query[q].result.session.status = "running"

\* C12: the result of every api_request call that returned, in single mode
\* as in chain mode, carries the sessionId the call used.
C12_ResultIncludesSessionId ==
  \A i \in Invs :
    inv[i].pc = "done" =>
      /\ "sessionId" \in DOMAIN inv[i].ret
      /\ inv[i].ret.sessionId = inv[i].sessionId

\* query q is a finished call of tool that did not find its session
NotFoundDone(q, tool) ==
  /\ query[q].tool = tool
  /\ query[q].pc = "done"
  /\ query[q].result = NotFound(query[q].sessionId)

\* C13: an api_session_status call for an id without session returns
\* 'Session not found: <id>' as its result and leaves the session store and
\* every session as they were; so as long as no api_request has created the
\* session, every finished status call for the id has answered not found.
C13_StatusNotFound ==
  /\ [][\A q \in Queries :
          (/\ query[q].pc = "idle"
           /\ query'[q].tool = "status"
           /\ sessionStore[query'[q].sessionId] = 0) =>
             /\ NotFoundDone(q, "status")'
             /\ sessionStore' = sessionStore
             /\ heap' = heap]_vars
  /\ [](\A q \in Queries :
          (/\ query[q].tool = "status"
           /\ query[q].pc = "done"
           /\ sessionStore[query[q].sessionId] = 0) => NotFoundDone(q, "status"))

\* two status calls for s1 have both answered not found, the second after an
\* api_request call had created a session under another id
C13_Witness ==
  \E p, q \in Queries :
    /\ p < q
    /\ NotFoundDone(p, "status") /\ NotFoundDone(q, "status")
    /\ query[p].sessionId = S1 /\ query[q].sessionId = S1
    /\ sessionStore[S1] = 0
    /\ sessionStore[uuid(1)] # 0

\* C14: an api_session_report call for an id without session returns
\* 'Session not found: <id>' and writes nothing: neither the reports
\* directory nor a file is created by it. The directory and the files on
\* disk are those of report calls that found their session.
C14_ReportNotFoundWritesNothing ==
  /\ [][\A q \in Queries :
          (/\ query[q].pc = "idle"
           /\ query'[q].tool = "report"
           /\ sessionStore[query'[q].sessionId] = 0) =>
             /\ NotFoundDone(q, "report")'
             /\ disk' = disk]_vars
  /\ [](disk.dir =>
          \E q \in Queries :
            query[q].tool = "report" /\ query[q].session # 0
            /\ query[q].pc \in {"write", "done"})
  /\ [](\A f \in disk.files :
          \E q \in Queries :
            /\ query[q].tool = "report" /\ query[q].session # 0
            /\ query[q].pc = "done"
            /\ f.path = ReportPath(query[q].sessionId))

\* a report call for s1 has answered not found and a report call for the
\* generated id has written its file: the file of the latter is the only one
C14_Witness ==
  \E p, q \in Queries :
    /\ NotFoundDone(p, "report")
    /\ query[p].sessionId = S1
    /\ ReportGenerated(q)
    /\ query[q].sessionId = uuid(1)
    /\ disk.dir
    /\ \A f \in disk.files : f.path = ReportPath(uuid(1))

\* the requests invocation i has reached: those answered and logged, and the
\* one in flight or ended by an error
Reached(i) ==
  inv[i].k + (IF inv[i].pc = "fetch" \/ (inv[i].pc = "failed" /\ ~UrlFailed(i))
              THEN 1 ELSE 0)

\* C15: every request is attempted exactly once: an invocation has issued
\* exactly one transport call per request it has reached, whatever the
\* responses and validation outcomes were; a chain that returned has issued
\* one call per step and holds one result per step, in step order, and a
\* single-mode call that returned has issued one call.
C15_AttemptedExactlyOnce ==
  \A i \in Invs :
    Started(i) =>
      /\ inv[i].calls = Reached(i)
      /\ Cardinality({f \in net : f.inv = i}) = (IF inv[i].pc = "fetch" THEN 1 ELSE 0)
      /\ ChainDone(i) =>
           /\ inv[i].calls = Len(inv[i].input.chain.a)
           /\ Len(inv[i].ret.results) = Len(inv[i].input.chain.a)
           /\ \A n \in 1..Len(inv[i].ret.results) :
                inv[i].ret.results[n].name = inv[i].input.chain.a[n].name
      /\ (inv[i].pc = "done" /\ ~IsChain(inv[i])) => inv[i].calls = 1

\* a two-step chain has returned after two transport calls although its
\* first step was answered 404 and failed its status expectation, and a
\* single-mode call whose validation failed has returned after one call
C15_Witness ==
  \E i, j \in Invs :
    /\ ChainDone(i)
    /\ Len(inv[i].input.chain.a) = 2
    /\ inv[i].ret.results[1].status = 404
    /\ ~inv[i].ret.results[1].validation.status
    /\ inv[i].calls = 2
    /\ inv[j].pc = "done"
    /\ ~IsChain(inv[j])
    /\ ~inv[j].ret.ok
    /\ inv[j].calls = 1

\* the request of UserStep with sub in the place of its placeholders
UserRequest(sub) ==
  [method |-> GET, url |-> <<"/", "u", "/">> \o sub,
   headers |-> Obj(<< <<<<"A">>, <<"B", " ">> \o sub>> >>),
   data |-> Str(sub)]

Placeholder(path) == <<"{", "{">> \o path \o <<"}", "}">>

\* step s of invocation i extracted a defined value under its x-th variable
\* and no later step of the invocation has extracted under that name since
Holds(i, s, x) ==
  LET e == inv[i].results[s].extracted.o
  IN /\ e[x][2] # Undefined
     /\ \A s2 \in (s + 1)..inv[i].k : ~HasKey(inv[i].results[s2].extracted.o, e[x][1])

\* '{{v}}' and '{{name.v}}' both render, against the scope of invocation i,
\* as the text of val
BothFormsRender(i, name, v, val) ==
  /\ renderTemplate(Placeholder(v), inv[i].stepVars) = ToStr(val)
  /\ renderTemplate(Placeholder(name \o <<".">> \o v), inv[i].stepVars) = ToStr(val)

\* the request of step j is the rendered one, in flight and in the log
RenderedIsSentAndLogged(i) ==
  \A j \in 2..Len(inv[i].input.chain.a) :
    (/\ inv[i].input.chain.a[1] = LoginStep
     /\ inv[i].input.chain.a[j] = UserStep
     /\ inv[i].k >= 1) =>
       LET val == GetProp(OwnEntries(i)[1].response.body, <<"t">>)
       IN val # Undefined =>
            /\ Lookup(inv[i].results[1].extracted.o, <<"t">>) = val
            /\ (inv[i].pc = "fetch" /\ inv[i].k + 1 = j) =>
                 inv[i].req = UserRequest(ToStr(val))
            /\ inv[i].k >= j =>
                 OwnEntries(i)[j].request = UserRequest(ToStr(val))

WordName(n) == n # <<>> /\ \A c \in 1..Len(n) : n[c] \in WordChars

\* the keys of a step result bundle that are set after the extracted fields
BundleKeys ==
  {<<"b", "o", "d", "y">>, StatusKey,
   <<"s", "t", "a", "t", "u", "s", "T", "e", "x", "t">>,
   <<"c", "o", "n", "t", "e", "n", "t", "T", "y", "p", "e">>}

\* from step s on, no step of invocation i has bound name again: no step
\* s..k is called name, and no step after s has extracted under it
NotRebound(i, s, name) ==
  /\ \A s2 \in s..inv[i].k : inv[i].results[s2].name # name
  /\ \A s2 \in (s + 1)..inv[i].k : ~HasKey(inv[i].results[s2].extracted.o, name)

RECURSIVE OwnScope(_, _)
OwnScope(i, n) ==
  IF n = 0 THEN <<>>
  ELSE LET r == inv[i].results[n]
           bundle == AssignAll(r.extracted.o,
                       << <<<<"b", "o", "d", "y">>, r.body>>,
                          <<<<"s", "t", "a", "t", "u", "s">>, Num(r.status)>>,
                          <<<<"s", "t", "a", "t", "u", "s", "T", "e", "x", "t">>,
                            Str(r.statusText)>>,
                          <<<<"c", "o", "n", "t", "e", "n", "t", "T", "y", "p", "e">>,
                            Str(r.contentType)>> >>)
       IN SetProp(AssignAll(OwnScope(i, n - 1), r.extracted.o), r.name, Obj(bundle))

StepDone == probe.pc = "ret" /\ probe.fn = "step"

\* C18: when a step extracts a variable under the step's own name, the
\* scope entry under that name is, after the step, the step result bundle:
\* an object holding the extracted fields and the body, status, statusText
\* and contentType of the response, not the bare extracted value; the other
\* extracted variables are in the scope with their bare values.
C18_StepNameWins ==
  (/\ StepDone
   /\ ~probe.out.throws
   /\ probe.step.extract # Undefined
   /\ HasKey(probe.step.extract.o, probe.step.name)) =>
     LET r == ReadResponse(probe.resp)
         ex == probe.step.extract.o
         entry == Lookup(probe.out.stepVars, probe.step.name)
     IN /\ entry.t = "obj"
        /\ {entry.o[j][1] : j \in 1..Len(entry.o)}
             = {ex[x][1] : x \in 1..Len(ex)} \cup BundleKeys
        /\ \A x \in 1..Len(ex) :
             /\ Lookup(entry.o, ex[x][1]) = Walk(r.body, Split(ex[x][2], "."))
             /\ entry # Walk(r.body, Split(ex[x][2], "."))
             /\ ex[x][1] # probe.step.name =>
                  Lookup(probe.out.stepVars, ex[x][1]) = Walk(r.body, Split(ex[x][2], "."))
        /\ Lookup(entry.o, <<"b", "o", "d", "y">>) = r.body
        /\ Lookup(entry.o, StatusKey) = Num(r.status)
        /\ Lookup(entry.o, <<"s", "t", "a", "t", "u", "s", "T", "e", "x", "t">>)
             = Str(r.statusText)
        /\ Lookup(entry.o, <<"c", "o", "n", "t", "e", "n", "t", "T", "y", "p", "e">>)
             = Str(r.contentType)

\* step lo extracted t and, under the name lo, i from {t: 'ab', i: 1}, with
\* lo already in the scope: afterwards lo is the bundle, whose lo is 1, and
\* t is 'ab'
C18_Witness ==
  /\ StepDone
  /\ probe.resp = OkResponse
  /\ probe.step.extract # Undefined
  /\ Len(probe.step.extract.o) = 2
  /\ HasKey(probe.stepVars, LoName)
  /\ Lookup(probe.out.stepVars, LoName).t = "obj"
  /\ Lookup(Lookup(probe.out.stepVars, LoName).o, LoName) = Num(1)
  /\ Lookup(probe.out.stepVars, <<"t">>) = Str(<<"a", "b">>)

ValidateDone == probe.pc = "ret" /\ probe.fn = "validate"

\* C19: with both body and bodyRegex in the expectation, the body validation
\* is the regex result alone, whatever the body check would have given.
C19_RegexOverridesBody ==
  (/\ ValidateDone
   /\ probe.expect.body # Undefined
   /\ probe.expect.bodyRegex # Undefined) =>
     LET body == ReadResponse(probe.resp).body
         target == IF body.t = "str" THEN body.s ELSE JsonText(body)
         m == RegExpTest(probe.expect.bodyRegex.s, target)
     IN /\ ~probe.out.throws
        /\ probe.out.bodyValidation =
             [matched |-> m,
              reason |-> IF m THEN "Regex match succeeded." ELSE "Regex match failed."]

\* the validation of an object expectation against an object (or array)
\* body, without bodyRegex
PartialCase ==
  /\ ValidateDone
  /\ probe.expect.bodyRegex = Undefined
  /\ probe.expect.body.t = "obj"
  /\ ReadResponse(probe.resp).body.t \in {"obj", "arr"}

\* C20: for an actual object body A and an expected object E without
\* bodyRegex, matched is true iff for every key k of E the serialisation of
\* A[k] equals that of E[k], with the reason of the partial match; any
\* other object that has the same values under the keys of E gets the same
\* result (extra keys do not count); and E with one value replaced by a
\* value whose serialisation differs from that of A[k] gets matched false
\* and 'Partial/exact body match failed.'.
C20_PartialMatch ==
  PartialCase =>
    LET A == ReadResponse(probe.resp).body
        E == probe.expect.body
        Result(E1, A1) ==
          Validate([NoExpect EXCEPT !.body = E1], 200, JsonCT, A1).bodyValidation
        agree == \A j \in 1..Len(E.o) :
                   Stringify(GetProp(A, E.o[j][1])) = Stringify(E.o[j][2])
    IN /\ ~probe.out.throws
       /\ probe.out.bodyValidation =
            [matched |-> agree,
             reason |-> IF agree THEN "Partial/exact body match succeeded."
                        ELSE "Partial/exact body match failed."]
       /\ \A A2 \in ProbeObjects :
            (\A j \in 1..Len(E.o) : GetProp(A2, E.o[j][1]) = GetProp(A, E.o[j][1]))
              => Result(E, A2) = probe.out.bodyValidation
       /\ \A j \in 1..Len(E.o) :
            \A v \in ProbeVals :
              Stringify(v) # Stringify(GetProp(A, E.o[j][1])) =>
                Result(Obj([E.o EXCEPT ![j] = <<E.o[j][1], v>>]), A)
                  = [matched |-> FALSE, reason |-> "Partial/exact body match failed."]

\* {i: 1} was expected and the body {t: 'a', i: 1}, with one more key, matched
C20_Witness ==
  /\ PartialCase
  /\ probe.expect.body = Obj(<< <<<<"i">>, Num(1)>> >>)
  /\ ReadResponse(probe.resp).body = Obj(<< <<<<"t">>, Str(<<"a">>)>>, <<<<"i">>, Num(1)>> >>)
  /\ probe.out.bodyValidation.matched

\* C21: the status validation passes iff the status expectation is absent
\* or the actual status equals it; a present expectation that differs from
\* the actual status, 0 included, gives validation.status false.
C21_StatusExact ==
  (ValidateDone /\ ~probe.out.throws) =>
    probe.out.validation.status =
      (\/ probe.expect.status = Undefined
       \/ probe.expect.status = Num(probe.resp.status))

\* C22: an expected body that is present and not a string, without
\* bodyRegex, where actual and expected body are not both non-null objects,
\* gives matched false with reason 'Body type mismatch.'.
C22_TypeMismatch ==
  (/\ ValidateDone
   /\ probe.expect.body # Undefined
   /\ probe.expect.bodyRegex = Undefined
   /\ probe.expect.body.t # "str"
   /\ LET A == ReadResponse(probe.resp).body
          E == probe.expect.body
      IN ~(TypeofObject(A) /\ A # Null /\ TypeofObject(E) /\ E # Null)) =>
     /\ ~probe.out.throws
     /\ probe.out.bodyValidation = [matched |-> FALSE, reason |-> "Body type mismatch."]

SingleDone(i) == Started(i) /\ ~IsChain(inv[i]) /\ inv[i].pc = "done"

\* C23: the ok flag a single-mode call returns is validation.status AND
\* validation.contentType AND bodyValidation.matched of its result, and
\* these three values are the ones of the 'single' log entry the call
\* pushed, which also records the returned status and body.
C23_OkIsConjunction ==
  \A i \in Invs :
    SingleDone(i) =>
      LET ret == inv[i].ret
          own == OwnEntries(i)
      IN /\ ret.ok = (/\ ret.validation.status
                      /\ ret.validation.contentType
                      /\ ret.bodyValidation.matched)
         /\ Len(own) = 1
         /\ own[1].type = "single"
         /\ own[1].validation = ret.validation
         /\ own[1].bodyValidation = ret.bodyValidation
         /\ own[1].response.status = ret.status
         /\ own[1].response.body = ret.body

\* two single-mode calls on one session have returned, one with ok true and
\* one with ok false, its body validation a type mismatch
C23_Witness ==
  \E i, j \in Invs :
    /\ SingleDone(i) /\ SingleDone(j)
    /\ inv[i].session = inv[j].session
    /\ inv[i].ret.ok
    /\ ~inv[j].ret.ok
    /\ inv[j].ret.bodyValidation.reason = "Body type mismatch."
    /\ OwnEntries(j)[1].bodyValidation.reason = "Body type mismatch."

RenderDone == probe.pc = "ret" /\ probe.fn = "render"

OnePlaceholder == RenderDone /\ probe.form = "placeholder"

RECURSIVE OwnWalk(_, _)
\* the value at a dotted path of a nested mapping, own properties only
OwnWalk(val, parts) ==
  IF parts = <<>> THEN val
  ELSE IF IsNullish(val) \/ ~HasOwn(val, parts[1]) THEN Undefined
  ELSE OwnWalk(OwnProp(val, parts[1]), Tail(parts))

\* text = pre \o (something) \o suf
Around(text, pre, suf) ==
  /\ Len(text) >= Len(pre) + Len(suf)
  /\ SubSeq(text, 1, Len(pre)) = pre
  /\ SubSeq(text, Len(text) - Len(suf) + 1, Len(text)) = suf

\* C24: renderTemplate never throws; a placeholder whose path the scope (as
\* a nested mapping) does not hold renders as the empty string; the text
\* outside the placeholder, and a text without placeholder, are unchanged.
C24_AbsentRendersEmpty ==
  RenderDone =>
    /\ ~probe.out.throws
    /\ probe.form = "plain" => probe.out.text = probe.str
    /\ probe.form = "placeholder" =>
         /\ Around(probe.out.text, probe.pre, probe.suf)
         /\ OwnWalk(Obj(probe.vars), Split(probe.path, ".")) = Undefined =>
              probe.out.text = probe.pre \o probe.suf

\* the value the path of the probe's placeholder resolves to
Final == Walk(Obj(probe.vars), Split(probe.path, "."))

\* the path of the probe's placeholder passes through a null or undefined
\* intermediate segment
NullishOnTheWay ==
  LET parts == Split(probe.path, ".")
  IN \E k \in 1..(Len(parts) - 1) : IsNullish(Walk(Obj(probe.vars), SubSeq(parts, 1, k)))

Rendered(mid) == probe.out.text = probe.pre \o mid \o probe.suf

\* C25: a placeholder whose final value is null renders as 'null', undefined
\* as the empty string, a number as its digits, a boolean as 'true' or
\* 'false'; a path through a null or undefined intermediate segment renders
\* as the empty string.
C25_Coercion ==
  (OnePlaceholder /\ ~probe.out.throws) =>
    /\ Final = Null => Rendered(<<"n", "u", "l", "l">>)
    /\ Final = Undefined => Rendered(<<>>)
    /\ Final.t = "num" => Rendered(<<Digits[Final.n + 1]>>)
    /\ Final = Bool(TRUE) => Rendered(<<"t", "r", "u", "e">>)
    /\ Final = Bool(FALSE) => Rendered(<<"f", "a", "l", "s", "e">>)
    /\ NullishOnTheWay => Rendered(<<>>)

\* a two-segment path whose final value is null rendered as 'null' between
\* the surrounding text
C25_Witness ==
  /\ OnePlaceholder
  /\ ~probe.out.throws
  /\ Len(Split(probe.path, ".")) > 1
  /\ Final = Null
  /\ probe.pre # <<>>
  /\ probe.suf # <<>>
  /\ Rendered(<<"n", "u", "l", "l">>)

\* a placeholder starts somewhere in text
HasPlaceholder(text) == \E p \in 1..Len(text) : MatchPlaceholder(text, p).ok

\* C26: a substituted string value appears verbatim in the output, whether
\* or not it (alone or with the text after it) reads as a placeholder.
C26_NotRecursive ==
  (OnePlaceholder /\ ~probe.out.throws /\ Final.t = "str") => Rendered(Final.s)

\* the substituted value is itself a placeholder for a name the scope holds,
\* and the output still holds that placeholder
C26_Witness ==
  /\ OnePlaceholder
  /\ ~probe.out.throws
  /\ Final.t = "str"
  /\ HasPlaceholder(Final.s)
  /\ \E p \in 1..Len(Final.s) :
       /\ MatchPlaceholder(Final.s, p).ok
       /\ HasKey(probe.vars, MatchPlaceholder(Final.s, p).path)
  /\ HasPlaceholder(probe.out.text)
  /\ Rendered(Final.s)

ExtractDone == probe.pc = "ret" /\ probe.fn = "extract"

\* the entries of the probe's descriptor, none when it is absent
Described == IF probe.extract = Undefined THEN <<>> ELSE probe.extract.o

RECURSIVE Member(_, _)
\* the value of the member expression obj.a.b when it evaluates to one,
\* undefined when it is undefined or throws on a null or undefined object
Member(val, parts) ==
  IF parts = <<>> THEN val
  ELSE IF IsNullish(val) THEN Undefined
  ELSE Member(GetProp(val, parts[1]), Tail(parts))

\* C27: extractFields returns (never throws), for every value and every
\* descriptor, an object with one key per entry of the descriptor, in its
\* order, bound to obj.a.b when that is defined and to undefined otherwise;
\* an empty or absent descriptor gives the empty object.
C27_ExtractFields ==
  ExtractDone =>
    /\ probe.out.t = "obj"
    /\ Len(probe.out.o) = Len(Described)
    /\ \A j \in 1..Len(Described) :
         /\ probe.out.o[j][1] = Described[j][1]
         /\ probe.out.o[j][2] = Member(probe.obj, Split(Described[j][2], "."))

\* two variables extracted from an object: the first bound to undefined,
\* its path passing through null, the second bound to a number
C27_Witness ==
  /\ ExtractDone
  /\ probe.obj.t = "obj"
  /\ Len(Described) > 1
  /\ Len(probe.out.o) = Len(Described)
  /\ Len(Split(Described[1][2], ".")) > 1
  /\ GetProp(probe.obj, Split(Described[1][2], ".")[1]) = Null
  /\ probe.out.o[1][2] = Undefined
  /\ probe.out.o[2][2].t = "num"

\* the step in which report call q renders the document from its session
Rendering(q) == query[q].pc = "mkdir" /\ query'[q].pc = "write"

\* the positions of the log of session object s that record a transport
\* call: those pushed for a chain step or for a single request
Executed(s) == {j \in 1..Len(owner[s]) : owner[s][j].step > 0}

\* the executed requests of s pushed by chain (TRUE) or single (FALSE) calls
ExecutedBy(s, chain) == {j \in Executed(s) : IsChain(inv[owner[s][j].inv]) = chain}

Passed(entry) ==
  entry.validation.status /\ entry.validation.contentType /\ entry.bodyValidation.matched

\* C28: the summary of a rendered report counts every logged transport call
\* of the session once (totalRequests), those with status, content type and
\* body validation all passed as successfulRequests, the others as
\* failedRequests.
C28_EveryRequestCountedOnce ==
  [][\A q \in Queries : Rendering(q) =>
       LET s == query[q].session
           summary == query'[q].result.summary
       IN /\ summary.totalRequests = Cardinality(Executed(s))
          /\ summary.successfulRequests =
               Cardinality({j \in Executed(s) : Passed(heap[s].logs[j])})
          /\ summary.successfulRequests + summary.failedRequests = summary.totalRequests]_vars

\* a report rendered from a session that two calls logged into, one of them
\* a chain whose 'chain' entry is in the log, with passed and failed requests
C28_Witness ==
  \E q \in Queries :
    /\ query[q].pc = "write"
    /\ \E j \in 1..Len(owner[query[q].session]) : owner[query[q].session][j].step = 0
    /\ ExecutedBy(query[q].session, TRUE) # {}
    /\ ExecutedBy(query[q].session, FALSE) # {}
    /\ query[q].result.summary.totalRequests = Cardinality(Executed(query[q].session))
    /\ query[q].result.summary.successfulRequests > 0
    /\ query[q].result.summary.failedRequests > 0

\* C29: the summary's chainSteps is the number of logged requests that chain
\* calls executed, its singleRequests the number that single-mode calls
\* executed.
C29_SplitByOrigin ==
  [][\A q \in Queries : Rendering(q) =>
       LET s == query[q].session
           summary == query'[q].result.summary
       IN /\ summary.chainSteps = Cardinality(ExecutedBy(s, TRUE))
          /\ summary.singleRequests = Cardinality(ExecutedBy(s, FALSE))]_vars

\* avg = Math.round(sum / n) for n > 0: the integer nearest to sum / n, the
\* upper one of two
IsRounded(avg, sum, n) == 2 * n * avg <= 2 * sum + n /\ 2 * sum + n < 2 * n * (avg + 1)

\* C30: the timing of a rendered report is null iff the session logged no
\* request; otherwise it has one item per logged request in ascending
\* timestamp order, averageIntervalMs is the rounded mean of the intervals
\* between consecutive items (0 for one item), and sessionDurationMs is the
\* last item's timestamp minus the first item's.
C30_Timing ==
  [][\A q \in Queries : Rendering(q) =>
       LET s == query[q].session
           timing == query'[q].result.timing
       IN /\ timing = Null <=> Executed(s) = {}
          /\ timing # Null =>
               LET items == timing.timings
                   n == Len(items)
                   span == items[n].timestamp - items[1].timestamp
               IN /\ n = Cardinality(Executed(s))
                  /\ timing.requestCount = n
                  /\ \A j \in 1..n : \A k \in j..n :
                       items[j].timestamp <= items[k].timestamp
                  /\ \A j \in 1..n :
                       items[j].relativeTimeMs = items[j].timestamp - heap[s].startTime
                  /\ IF n > 1 THEN IsRounded(timing.averageIntervalMs, span, n - 1)
                     ELSE timing.averageIntervalMs = 0
                  /\ timing.sessionDurationMs = span]_vars

\* a report rendered with three timed requests or more whose mean interval
\* is not an integer
C30_Witness ==
  \E q \in Queries :
    /\ query[q].pc = "write"
    /\ query[q].result.timing # Null
    /\ LET timing == query[q].result.timing
           n == Len(timing.timings)
       IN /\ n > 2
          /\ timing.sessionDurationMs > 0
          /\ timing.averageIntervalMs * (n - 1) # timing.sessionDurationMs
          /\ timing.sessionDurationMs =
               timing.timings[n].timestamp - timing.timings[1].timestamp

\* the positions of the document where a log entry opens
EntryAt(doc) == {p \in 1..Len(doc) : doc[p] = Markup("log-entry")}

\* the number of elements of S up to x
Rank(S, x) == Cardinality({y \in S : y <= x})

\* C31: the rendered document has one entry per logged transport call of the
\* session ('request' and 'single' log entries), in log order, each showing
\* the method, url and status of its log entry; the 'chain' entry opens none.
C31_OneEntryPerRequest ==
  [][\A q \in Queries : Rendering(q) =>
       LET s == query[q].session
           doc == query'[q].result.html
       IN /\ Cardinality(EntryAt(doc)) = Cardinality(Executed(s))
          /\ \A p \in EntryAt(doc) : \A j \in Executed(s) :
               Rank(EntryAt(doc), p) = Rank(Executed(s), j) =>
                 /\ heap[s].logs[j].type \in {"request", "single"}
                 /\ doc[p + 2] = Piece("method", heap[s].logs[j].request.method)
                 /\ doc[p + 3] = Piece("url", EscapeChars(heap[s].logs[j].request.url))
                 /\ doc[p + 4] =
                      Piece("statusCode", NumToStr(heap[s].logs[j].response.status))]_vars

\* a document rendered from a session that holds a 'chain' entry, the
\* requests of its steps and a single request: an entry for each request
C31_Witness ==
  \E q \in Queries :
    /\ query[q].pc = "write"
    /\ \E j \in 1..Len(owner[query[q].session]) : owner[query[q].session][j].step = 0
    /\ ExecutedBy(query[q].session, TRUE) # {}
    /\ ExecutedBy(query[q].session, FALSE) # {}
    /\ Cardinality(EntryAt(query[q].result.html)) = Cardinality(Executed(query[q].session))
    /\ Cardinality(EntryAt(query[q].result.html)) > 2

ReportDone == probe.pc = "ret" /\ probe.fn = "report"

\* the character references escapeHtml writes
Entities == {EscapeChar(c) : c \in MarkupChars}

\* text holds a markup character that is not written as a character reference
HasRawMarkup(text) ==
  \E j \in 1..Len(text) :
    \/ text[j] \in MarkupChars \ {"&"}
    \/ /\ text[j] = "&"
       /\ ~\E e \in Entities :
             j + Len(e) - 1 <= Len(text) /\ SubSeq(text, j, j + Len(e) - 1) = e

\* C32: no text the document interpolates for a caller- or server-controlled
\* field holds a markup character: each passed through escapeHtml.
C32_AllEscaped ==
  ReportDone =>
    \A p \in 1..Len(probe.out) :
      probe.out[p].field # "markup" => ~HasRawMarkup(probe.out[p].text)

\* C33: once a chain call has completed, its session has the fields endTime
\* and executionTime.
C33_EndTimeSet ==
  \A i \in Invs :
    ChainDone(i) => {"endTime", "executionTime"} \subseteq DOMAIN heap[inv[i].session]

\* invocation i is called in this step
Called(i) == inv[i].pc = "idle" /\ inv'[i].pc # "idle"

\* C34: a session is created by the api_request call that first presents its
\* sessionId, with status 'running', no logs and the time of the call as
\* startTime; a later call with the sessionId works on that record; the
\* sessionId and startTime of a record never change, its logs only grow, and
\* no session leaves the store.
C34_SessionLifecycle ==
  [][/\ \A id \in SessionKeys :
          IF sessionStore[id] = 0
          THEN sessionStore'[id] # 0 =>
                 /\ \E i \in Invs : Called(i) /\ inv'[i].sessionId = id
                                      /\ inv'[i].session = sessionStore'[id]
                 /\ sessionStore'[id] = Len(heap) + 1
                 /\ heap'[sessionStore'[id]] =
                      [sessionId |-> id, startTime |-> clock', logs |-> <<>>,
                       status |-> "running"]
          ELSE /\ sessionStore'[id] = sessionStore[id]
               /\ \A i \in Invs : (Called(i) /\ inv'[i].sessionId = id) =>
                                     inv'[i].session = sessionStore[id]
     /\ \A r \in 1..Len(heap) :
          /\ heap'[r].sessionId = heap[r].sessionId
          /\ heap'[r].startTime = heap[r].startTime
          /\ IsPrefix(heap[r].logs, heap'[r].logs)]_vars

\* a second call presents the sessionId of a session created earlier, after
\* the clock has moved on: the record keeps its startTime and its logs
C34_Witness ==
  \E i, j \in Invs :
    /\ i # j
    /\ Started(i) /\ Started(j)
    /\ inv[i].sessionId = S1
    /\ inv[j].sessionId = S1
    /\ inv[i].session = inv[j].session
    /\ sessionStore[S1] = inv[i].session
    /\ heap[inv[i].session].startTime < clock
    /\ \E a, b \in 1..Len(owner[inv[i].session]) :
         owner[inv[i].session][a].inv = i /\ owner[inv[i].session][b].inv = j

\* the result of step n of chain call i records a failed validation
FailedStep(i, n) == ~Passed(inv[i].results[n])

\* C35: whatever the validation of an answered chain step, the call for the
\* next step has been issued, and the failing result is in the call's
\* results, in the 'request' entry the call logged for the step and, once the
\* chain has returned, in the returned results.
C35_FailureDoesNotStopChain ==
  \A i \in Invs :
    (Started(i) /\ IsChain(inv[i])) =>
      \A n \in 1..inv[i].k :
        FailedStep(i, n) =>
          /\ n < Len(inv[i].input.chain.a) => inv[i].calls > n
          /\ Len(OwnEntries(i)) >= n
          /\ OwnEntries(i)[n].type = "request"
          /\ OwnEntries(i)[n].validation = inv[i].results[n].validation
          /\ OwnEntries(i)[n].bodyValidation = inv[i].results[n].bodyValidation
          /\ ChainDone(i) =>
               /\ Len(inv[i].ret.results) = Len(inv[i].input.chain.a)
               /\ inv[i].ret.results[n] = inv[i].results[n]

\* a chain of two steps has returned: its first step failed the status
\* expectation, its second step was executed and failed the body expectation
C35_Witness ==
  \E i \in Invs :
    /\ ChainDone(i)
    /\ Len(inv[i].ret.results) > 1
    /\ ~inv[i].ret.results[1].validation.status
    /\ ~inv[i].ret.results[2].bodyValidation.matched
    /\ Len(OwnEntries(i)) > 2
    /\ ~OwnEntries(i)[1].validation.status
    /\ ~OwnEntries(i)[2].bodyValidation.matched
    /\ inv[i].calls = Len(inv[i].ret.results)

\* the validation of the answer to step n of the probe's chain against the
\* expectation of that step alone
OwnValidation(n) ==
  LET step == probe.input.chain.a[n]
      r == ReadResponse(probe.resps[n])
  IN Validate(IF step.expect = Undefined THEN NoExpect ELSE step.expect,
              r.status, r.contentType, r.body)

\* C36: the validation recorded for a chain step, in the results and in the
\* log entry, is the one of the answer against the step's own expect,
\* whatever the input carries as expect at its top level; for a step without
\* expect it is status true, contentType true and matched true with the
\* reason 'No body expectation set.', for every answer.
C36_StepExpectOnly ==
  probe.fn = "chain" =>
    \A n \in 1..Len(probe.results) :
      /\ probe.results[n].validation = OwnValidation(n).validation
      /\ probe.results[n].bodyValidation = OwnValidation(n).bodyValidation
      /\ probe.entries[n].validation = OwnValidation(n).validation
      /\ probe.entries[n].bodyValidation = OwnValidation(n).bodyValidation
      /\ probe.input.chain.a[n].expect = Undefined =>
           /\ probe.results[n].validation.status
           /\ probe.results[n].validation.contentType
           /\ probe.results[n].bodyValidation.matched
           /\ probe.results[n].bodyValidation.reason = "No body expectation set."
           /\ probe.entries[n].validation.status
           /\ probe.entries[n].validation.contentType
           /\ probe.entries[n].bodyValidation.matched

\* a chain called with an expect at the top level has run: a step without
\* expect, answered by a response that the top-level expect fails, passed,
\* and a step expecting status 200, answered 404, failed
C36_Witness ==
  /\ probe.fn = "chain"
  /\ probe.pc = "ret"
  /\ probe.input.expect = TopExpect
  /\ Len(probe.results) > 1
  /\ \E n \in 1..Len(probe.results) :
       /\ probe.input.chain.a[n].expect = Undefined
       /\ probe.resps[n] = OkResponse
       /\ ~Validate(TopExpect, 200, JsonCT, OkResponse.json).validation.status
       /\ probe.results[n].validation.status
       /\ probe.results[n].bodyValidation.matched
  /\ \E n \in 1..Len(probe.results) :
       /\ probe.input.chain.a[n].expect # Undefined
       /\ ~probe.results[n].validation.status

\* C37: the status of every session is 'running' or 'completed', also when
\* a transport error has ended a chain on it; a new session is 'running'; a
\* 'completed' session stays 'completed' in every step, and a step in which
\* a call pushes an entry on a 'completed' session appends that entry to its
\* logs.
C37_StatusOnlyCompletes ==
  [][\A s \in 1..Len(heap') :
       /\ heap'[s].status \in {"running", "completed"}
       /\ IF s > Len(heap) THEN heap'[s].status = "running"
          ELSE heap[s].status = "completed" =>
                 /\ heap'[s].status = "completed"
                 /\ Len(owner'[s]) > Len(owner[s]) =>
                      /\ Len(heap'[s].logs) = Len(heap[s].logs) + 1
                      /\ IsPrefix(heap[s].logs, heap'[s].logs)]_vars

\* a chain has completed a session, and a later chain called with the same
\* sessionId has appended the entry of its first step to it and was then
\* ended by a transport error: the session is still 'completed'
C37_Witness ==
  \E i, j \in Invs :
    /\ ChainDone(i)
    /\ i # j
    /\ TransportFailed(j)
    /\ inv[j].pc = "failed"
    /\ inv[j].session = inv[i].session
    /\ heap[inv[i].session].status = "completed"
    /\ \E a, b \in 1..Len(owner[inv[i].session]) :
         /\ a < b
         /\ owner[inv[i].session][a] = [inv |-> i, step |-> 0]
         /\ owner[inv[i].session][b].inv = j
         /\ heap[inv[i].session].logs[b].type = "request"

\* C38: an invocation that has ended, with a result or with a transport or
\* validation error, has left no request context open: the context it
\* created, if any, is disposed.
C38_ContextDisposed ==
  \A i \in Invs : Ended(i) => inv[i].ctx \in {"none", "disposed"}

\* what step s of the probe's chain extracted under the probe's variable
ExtractedAt(s) == Lookup(probe.results[s].extracted.o, probe.var)

\* step s lists the probe's variable in its extract descriptor
Lists(s) == HasKey(probe.results[s].extracted.o, probe.var)

\* no step after s and before j is named as the variable or lists it
Untouched(s, j) ==
  \A s2 \in (s + 1)..(j - 1) : probe.results[s2].name # probe.var /\ ~Lists(s2)

\* the url '/{{v}}' of step j was sent as '/' followed by text
SentAs(j, text) == probe.entries[j].request.url = <<"/">> \o text

\* C39 as stated: a value that step s extracted under v is what '{{v}}'
\* renders as in every later step j, unless a step between them is named v or
\* lists v in its extract; and when step s lists v with a path that resolves
\* to nothing, after an earlier step extracted a value, '{{v}}' renders as
\* the empty string in the later steps.
C39_VariablePersists ==
  probe.fn = "chain" =>
    \A s \in 1..Len(probe.results) :
      \A j \in (s + 1)..Len(probe.entries) :
        (Lists(s) /\ Untouched(s, j)) =>
          IF ExtractedAt(s) # Undefined THEN SentAs(j, ToStr(ExtractedAt(s)))
          ELSE (\E s0 \in 1..(s - 1) : Lists(s0) /\ ExtractedAt(s0) # Undefined) =>
                 SentAs(j, <<>>)

\* C39 amended: the same for a variable v made of the characters
\* [A-Za-z0-9_] and a step s that is not itself named v.
C39_WordVariablePersists ==
  probe.fn = "chain" =>
    \A s \in 1..Len(probe.results) :
      \A j \in (s + 1)..Len(probe.entries) :
        (/\ Lists(s) /\ Untouched(s, j)
         /\ WordName(probe.var)
         /\ probe.results[s].name # probe.var) =>
          IF ExtractedAt(s) # Undefined THEN SentAs(j, ToStr(ExtractedAt(s)))
          ELSE (\E s0 \in 1..(s - 1) : Lists(s0) /\ ExtractedAt(s0) # Undefined) =>
                 SentAs(j, <<>>)

\* a chain of three steps has run: the first extracted v = 'ab', the second
\* was sent to '/ab' and listed v with a path that resolved to nothing, and
\* the third was sent to '/'
C39_Witness ==
  /\ probe.fn = "chain"
  /\ probe.pc = "ret"
  /\ probe.var = <<"v">>
  /\ Len(probe.entries) > 2
  /\ probe.results[1].name # probe.var
  /\ ExtractedAt(1) = Str(<<"a", "b">>)
  /\ SentAs(2, <<"a", "b">>)
  /\ probe.results[2].name # probe.var
  /\ Lists(2)
  /\ ExtractedAt(2) = Undefined
  /\ SentAs(3, <<>>)

\* a step of a call of api_session_status or api_session_report
QueryStep == \E q \in Queries : query'[q] # query[q]

\* C40: every step of an api_session_status or api_session_report call, for
\* an existing or a missing sessionId, leaves the session store as it was:
\* the same sessions under the same ids, and for each session the same logs,
\* status and startTime.
C40_QueriesReadOnly ==
  [][QueryStep =>
       /\ \A id \in SessionKeys : sessionStore'[id] = sessionStore[id]
       /\ Len(heap') = Len(heap)
       /\ \A s \in 1..Len(heap) :
            /\ heap'[s].logs = heap[s].logs
            /\ heap'[s].status = heap[s].status
            /\ heap'[s].startTime = heap[s].startTime]_vars

\* both tools have been called to their end, one for a session that holds
\* logs and one for a sessionId that the store does not have; the session
\* is still 'running' with the logs its api_request call pushed
C40_Witness ==
  \E p, q \in Queries :
    /\ query[p].pc = "done"
    /\ query[q].pc = "done"
    /\ {query[p].tool, query[q].tool} = {"status", "report"}
    /\ sessionStore[query[p].sessionId] # 0
    /\ sessionStore[query[q].sessionId] = 0
    /\ heap[sessionStore[query[p].sessionId]].logs # <<>>
    /\ heap[sessionStore[query[p].sessionId]].status = "running"
    /\ Len(owner[sessionStore[query[p].sessionId]])
         = Len(heap[sessionStore[query[p].sessionId]].logs)

TypeOK ==
  /\ \A i \in Invs : inv[i].pc \in {"idle", "newContext", "fetch", "dispose", "done", "failed"}
  /\ Len(owner) = Len(heap)
  /\ \A r \in 1..Len(heap) : Len(owner[r]) = Len(heap[r].logs)
====
